---- MODULE Spec2Model ----
(***************************************************************************)
(* Model of the templater package: file resolution with wildcards and      *)
(* index files, wildcard value coercion, and the public resolve-and-render *)
(* calls.  Strings are sequences of one-character strings, so that the     *)
(* path and extension functions are modelled character by character.       *)
(***************************************************************************)
EXTENDS Integers, Sequences, FiniteSets, TLC

\* ------------------------------------------------------------------------
\* Bounds of the model
\* ------------------------------------------------------------------------
MaxFiles == 3

\* the nested component and slot renders one call may stack
MaxDepth == 4

\* ------------------------------------------------------------------------
\* Strings
\* ------------------------------------------------------------------------
Last(s) == s[Len(s)]

\* s[from:to] of Go, 0-based, to exclusive
Slice(s, from, to) == SubSeq(s, from + 1, to)

HasSuffix(s, suf) ==
    /\ Len(s) >= Len(suf)
    /\ SubSeq(s, Len(s) - Len(suf) + 1, Len(s)) = suf

\* strings.IndexByte: 0-based index of the first c in s, or -1
IndexByte(s, c) ==
    IF \E i \in 1..Len(s) : s[i] = c
    THEN (CHOOSE i \in 1..Len(s) : s[i] = c /\ \A j \in 1..(i - 1) : s[j] # c) - 1
    ELSE -1

\* strings.LastIndexByte: 0-based index of the last c in s, or -1
LastIndexByte(s, c) ==
    IF \E i \in 1..Len(s) : s[i] = c
    THEN (CHOOSE i \in 1..Len(s) : s[i] = c /\ \A j \in (i + 1)..Len(s) : s[j] # c) - 1
    ELSE -1

\* s when it is not empty, d otherwise
OrIfEmpty(s, d) == IF s = <<>> THEN d ELSE s

\* strings.Split(s, sep) for a one-character separator; i is the index of
\* the first separator in s
RECURSIVE Split(_, _)
SplitAt(s, sep, i) ==
    IF i < 0 THEN <<s>>
    ELSE <<Slice(s, 0, i)>> \o Split(Slice(s, i + 1, Len(s)), sep)

Split(s, sep) == SplitAt(s, sep, IndexByte(s, sep))

\* strings.Join(elems, sep)
RECURSIVE Join(_, _)
Join(elems, sep) ==
    IF Len(elems) = 0 THEN <<>>
    ELSE IF Len(elems) = 1 THEN elems[1]
    ELSE elems[1] \o sep \o Join(Tail(elems), sep)

\* strings.SplitN(s, sep, 2); i is the index of the first separator in s
SplitN2At(s, i) ==
    IF i < 0 THEN <<s>>
    ELSE <<Slice(s, 0, i), Slice(s, i + 1, Len(s))>>

SplitN2(s, sep) == SplitN2At(s, IndexByte(s, sep))

\* ------------------------------------------------------------------------
\* package path
\* ------------------------------------------------------------------------
\* the stack of path elements left by path.Clean, "." dropped and ".."
\* resolved against the element before it
RECURSIVE CleanElems(_, _, _)
CleanElems(elems, rooted, out) ==
    IF Len(elems) = 0 THEN out
    ELSE IF Head(elems) = <<>> \/ Head(elems) = <<".">>
    THEN CleanElems(Tail(elems), rooted, out)
    ELSE IF Head(elems) = <<".", ".">>
    THEN IF Len(out) > 0 /\ Last(out) # <<".", ".">>
         THEN CleanElems(Tail(elems), rooted, SubSeq(out, 1, Len(out) - 1))
         ELSE IF rooted THEN CleanElems(Tail(elems), rooted, out)
         ELSE CleanElems(Tail(elems), rooted, Append(out, Head(elems)))
    ELSE CleanElems(Tail(elems), rooted, Append(out, Head(elems)))

\* path.Clean
Clean(p) ==
    IF p = <<>> THEN <<".">>
    ELSE OrIfEmpty((IF p[1] = "/" THEN <<"/">> ELSE <<>>)
                   \o Join(CleanElems(Split(p, "/"), p[1] = "/", <<>>), <<"/">>),
                   <<".">>)

\* p without its trailing slashes
RECURSIVE TrimTrailingSlashes(_)
TrimTrailingSlashes(p) ==
    IF Len(p) > 0 /\ Last(p) = "/"
    THEN TrimTrailingSlashes(SubSeq(p, 1, Len(p) - 1))
    ELSE p

\* what follows the slash at index i of t, all of t when i is -1
AfterSlash(t, i) == IF i >= 0 THEN Slice(t, i + 1, Len(t)) ELSE t

\* path.Base of a path t that has no trailing slash
BaseTrimmed(t) == OrIfEmpty(AfterSlash(t, LastIndexByte(t, "/")), <<"/">>)

\* path.Base
Base(p) == IF p = <<>> THEN <<".">> ELSE BaseTrimmed(TrimTrailingSlashes(p))

\* path.Ext
RECURSIVE ExtFrom(_, _)
ExtFrom(p, i) ==
    IF i < 1 \/ p[i] = "/" THEN <<>>
    ELSE IF p[i] = "." THEN SubSeq(p, i, Len(p))
    ELSE ExtFrom(p, i - 1)

Ext(p) == ExtFrom(p, Len(p))

\* ------------------------------------------------------------------------
\* Path segmenter
\* ------------------------------------------------------------------------
\* the tail of getPathSegments, once a leading slash is gone
SegmentsOfRelative(p) ==
    IF p = <<>> THEN <<>>
    ELSE Split(IF Last(p) = "/" THEN Slice(p, 0, Len(p) - 1) ELSE p, "/")

\* getPathSegments after path.Clean
SegmentsOfClean(p) ==
    IF p = <<>> \/ p = <<".">> THEN <<>>
    ELSE SegmentsOfRelative(IF p[1] = "/" THEN Slice(p, 1, Len(p)) ELSE p)

getPathSegments(p) == SegmentsOfClean(Clean(p))

\* one round of the loop of getExtendedExtension, ext being path.Ext(base)
RECURSIVE ExtendedExtLoop(_, _, _)
ExtendedExtStep(base, startsWithWildcardPrefix, res, ext) ==
    IF \/ ext = <<>>
       \/ ext = base
       \/ (startsWithWildcardPrefix /\ Last(base) = "}")
    THEN res
    ELSE ExtendedExtLoop(Slice(base, 0, Len(base) - Len(ext)),
                         startsWithWildcardPrefix, ext \o res)

ExtendedExtLoop(base, startsWithWildcardPrefix, res) ==
    ExtendedExtStep(base, startsWithWildcardPrefix, res, Ext(base))

\* the loop of getExtendedExtension started on base
ExtendedExtOfBase(base) ==
    ExtendedExtLoop(base, Len(base) > 0 /\ base[1] = "{", <<>>)

getExtendedExtension(filename) == ExtendedExtOfBase(Base(filename))

isWildCard(base) ==
    Len(base) > 2 /\ base[1] = "{" /\ base[Len(base)] = "}"

\* ------------------------------------------------------------------------
\* Configuration and errors
\* ------------------------------------------------------------------------
\* Config.FileExt, a configured extension of two dot-suffixes like the
\* default ".html.tmpl"
FileExt == <<".", "h", ".", "t">>

INDEX == <<"i", "n", "d", "e", "x">>

NoErr == [kind |-> "nil"]

ErrNotTemplateFileFound(dirName, filename) ==
    [kind |-> "ErrNotTemplateFileFound", Dir |-> dirName, Filename |-> filename]

ErrMultipleWildcardBranches(filename, dirName, l) ==
    [kind |-> "MultipleWildcardBranches", Filename |-> filename,
     Dir |-> dirName, Count |-> l]

\* ------------------------------------------------------------------------
\* The directory tree under a root: a set of regular files, each given by
\* its slash-separated path relative to the root; the directories are the
\* proper prefixes of the files' paths
\* ------------------------------------------------------------------------
\* the directories on the way from the root to an entry of segments segs,
\* the root included
AncestorsOfSegments(segs) ==
    {<<".">>} \cup { Join(SubSeq(segs, 1, k), <<"/">>) : k \in 1..(Len(segs) - 1) }

AncestorsOf(p) == AncestorsOfSegments(Split(p, "/"))

\* pWithoutExt of the fs.WalkDirFunc
WithoutExt(p, isDir, ext) ==
    IF ~isDir /\ HasSuffix(p, ext) THEN Slice(p, 0, Len(p) - Len(ext)) ELSE p

\* the fs.WalkDirFunc of findBestFilenameMatchInDir from the entry's
\* segments on: "SkipDir", "nil", or "append" (the entry's segments are
\* appended to matchesFound and nil is returned)
WalkFnOnSegments(segments, isDir, filenameBaseSegments, ext) ==
    LET n == Len(filenameBaseSegments)
        expectMatchingFileOrParentDir == Len(segments) = n
        expectIndexFile == Len(segments) = n + 1
        SegOk(i) ==
            LET seg == segments[i]
                isLastSegment == i = Len(segments)
            IN  \/ (i <= n /\ filenameBaseSegments[i] = seg)
                \/ (isLastSegment /\ expectIndexFile /\ seg = INDEX)
                \/ isWildCard(IF isLastSegment /\ expectMatchingFileOrParentDir
                                 /\ ~isDir /\ HasSuffix(seg, ext)
                              THEN Slice(seg, 0, Len(seg) - Len(ext)) ELSE seg)
    IN  IF expectIndexFile /\ isDir THEN "SkipDir"
        ELSE IF ~expectIndexFile /\ ~expectMatchingFileOrParentDir /\ ~isDir
        THEN "nil"
        ELSE IF \E i \in 1..Len(segments) : ~SegOk(i)
        THEN (IF isDir THEN "SkipDir" ELSE "nil")
        ELSE IF ~isDir /\ (expectMatchingFileOrParentDir \/ expectIndexFile)
        THEN "append"
        ELSE "nil"

\* the fs.WalkDirFunc of findBestFilenameMatchInDir applied to one entry
WalkFn(p, isDir, filenameBaseSegments, ext) ==
    WalkFnOnSegments(getPathSegments(WithoutExt(p, isDir, ext)), isDir,
                     filenameBaseSegments, ext)

\* the extension is left on the file's last segment
WalkSegments_KeepsExt(p, ext) == getPathSegments(p)

\* the segments of file p as the walk computes them
WalkSegments(p, ext) ==
    getPathSegments(IF HasSuffix(p, ext)
                    THEN Slice(p, 0, Len(p) - Len(ext)) ELSE p)

\* the files the walk reaches (no directory above them was skipped) and
\* appends to matchesFound
MatchedFiles(files, filenameBaseSegments, ext) ==
    { f \in files :
        /\ \A d \in AncestorsOf(f) :
              WalkFn(d, TRUE, filenameBaseSegments, ext) # "SkipDir"
        /\ WalkFn(f, FALSE, filenameBaseSegments, ext) = "append" }

\* every order in which the matched files can be appended
Orderings(S) ==
    { o \in [1..Cardinality(S) -> S] :
        \A i, j \in 1..Cardinality(S) : o[i] = o[j] => i = j }

\* ------------------------------------------------------------------------
\* Segment tree: a map from segment to subtree, held as the set of the
\* paths of its nodes; a node is named by the path that leads to it, the
\* root by the empty path
\* ------------------------------------------------------------------------
Prefixes(segs) == { SubSeq(segs, 1, k) : k \in 1..Len(segs) }

RECURSIVE buildSegmentTree(_)
buildSegmentTree(pathSegmentList) ==
    IF Len(pathSegmentList) = 0 THEN {}
    ELSE buildSegmentTree(Tail(pathSegmentList)) \cup Prefixes(Head(pathSegmentList))

\* the keys of the map at node branch
Children(tree, branch) ==
    { Last(nd) : nd \in { m \in tree : Len(m) = Len(branch) + 1
                                       /\ SubSeq(m, 1, Len(branch)) = branch } }

\* the loop over filenameBaseSegments that picks one branch per segment;
\* kids are the keys of the map at branch
RECURSIVE WalkTree(_, _, _, _, _)
\* the number of branches is looked at before the exact match
WalkTreeStep_CountsFirst(tree, segs, i, branch, matching, kids) ==
    IF Cardinality(kids) > 1
    THEN [ok |-> FALSE, l |-> Cardinality(kids)]
    ELSE IF segs[i] \in kids
    THEN WalkTree(tree, segs, i + 1, Append(branch, segs[i]), Append(matching, segs[i]))
    ELSE IF kids = {}
    THEN WalkTree(tree, segs, i + 1, branch, Append(matching, <<>>))
    ELSE WalkTree(tree, segs, i + 1, Append(branch, CHOOSE k \in kids : TRUE),
                  Append(matching, CHOOSE k \in kids : TRUE))

WalkTreeStep(tree, segs, i, branch, matching, kids) ==
    IF segs[i] \in kids
    THEN WalkTree(tree, segs, i + 1, Append(branch, segs[i]), Append(matching, segs[i]))
    ELSE IF Cardinality(kids) > 1
    THEN [ok |-> FALSE, l |-> Cardinality(kids)]
    ELSE IF kids = {}
    THEN WalkTree(tree, segs, i + 1, branch, Append(matching, <<>>))
    ELSE WalkTree(tree, segs, i + 1, Append(branch, CHOOSE k \in kids : TRUE),
                  Append(matching, CHOOSE k \in kids : TRUE))

WalkTree(tree, segs, i, branch, matching) ==
    IF i > Len(segs) THEN [ok |-> TRUE, branch |-> branch, matching |-> matching]
    ELSE WalkTreeStep(tree, segs, i, branch, matching, Children(tree, branch))

\* the index file is never looked for
appendIndex_Never(tree, branch, matching) == matching

\* the index file of the directory the walk ended in, when it exists
appendIndex(tree, branch, matching) ==
    IF INDEX \in Children(tree, branch) THEN Append(matching, INDEX) ELSE matching

\* the end of findBestFilenameMatchInDir, w being the outcome of the loop
\* over filenameBaseSegments
BestMatchOfWalk(tree, w, filename, ext, dirName) ==
    IF ~w.ok
    THEN [path |-> <<>>, err |-> ErrMultipleWildcardBranches(filename, dirName, w.l)]
    ELSE [path |-> Join(appendIndex(tree, w.branch, w.matching), <<"/">>) \o ext,
          err |-> NoErr]

\* findBestFilenameMatchInDir once the segment tree is built
BestMatchInTree(tree, filenameBaseSegments, filename, ext, dirName) ==
    BestMatchOfWalk(tree, WalkTree(tree, filenameBaseSegments, 1, <<>>, <<>>),
                    filename, ext, dirName)

\* findBestFilenameMatchInDir once the walk has filled matchesFound
BestMatch(matchesFound, filenameBase, ext, dirName) ==
    IF Len(matchesFound) = 0
    THEN [path |-> <<>>,
          err |-> ErrNotTemplateFileFound(dirName, filenameBase \o ext)]
    ELSE BestMatchInTree(buildSegmentTree(matchesFound),
                         getPathSegments(filenameBase), filenameBase \o ext,
                         ext, dirName)

\* the results of findBestFilenameMatchInDir over every order in which the
\* walk can enumerate the matched files
findBestFilenameMatchInDir(filenameBase, ext, files, dirName) ==
    LET matched == MatchedFiles(files, getPathSegments(filenameBase), ext)
    IN  { BestMatch([i \in DOMAIN o |-> WalkSegments(o[i], ext)],
                    filenameBase, ext, dirName) : o \in Orderings(matched) }

\* ------------------------------------------------------------------------
\* Numbers of any width: a sign and the decimal digits of the magnitude,
\* most significant first, without leading zeros (zero is <<0>>)
\* ------------------------------------------------------------------------
RECURSIVE StripZeros(_)
StripZeros(ds) ==
    IF Len(ds) > 1 /\ ds[1] = 0 THEN StripZeros(Tail(ds)) ELSE ds

RECURSIVE CarryDigits(_)
CarryDigits(c) ==
    IF c = 0 THEN <<>> ELSE CarryDigits(c \div 10) \o <<c % 10>>

\* ds * m + carry, digit by digit from the least significant digit
RECURSIVE MulAddFrom(_, _, _, _, _)
MulAddFrom(ds, i, m, carry, acc) ==
    IF i < 1 THEN CarryDigits(carry) \o acc
    ELSE LET v == ds[i] * m + carry
         IN  MulAddFrom(ds, i - 1, m, v \div 10, <<v % 10>> \o acc)

MulAdd(ds, m, d) == StripZeros(MulAddFrom(ds, Len(ds), m, d, <<>>))

\* ds - 1, for ds > 0
RECURSIVE DecFrom(_)
DecFrom(ds) ==
    IF Last(ds) > 0 THEN SubSeq(ds, 1, Len(ds) - 1) \o <<Last(ds) - 1>>
    ELSE DecFrom(SubSeq(ds, 1, Len(ds) - 1)) \o <<9>>

Dec(ds) == StripZeros(DecFrom(ds))

RECURSIVE LexLess(_, _, _)
LexLess(x, y, i) ==
    IF i > Len(x) THEN FALSE
    ELSE IF x[i] # y[i] THEN x[i] < y[i]
    ELSE LexLess(x, y, i + 1)

MagLess(x, y) ==
    IF Len(x) # Len(y) THEN Len(x) < Len(y) ELSE LexLess(x, y, 1)

MagLeq(x, y) == x = y \/ MagLess(x, y)

\* 1 << w, for the widths the integer types of the program have
Pow2(w) ==
    CASE w = 7 -> <<1, 2, 8>>
      [] w = 8 -> <<2, 5, 6>>
      [] w = 15 -> <<3, 2, 7, 6, 8>>
      [] w = 16 -> <<6, 5, 5, 3, 6>>
      [] w = 31 -> <<2, 1, 4, 7, 4, 8, 3, 6, 4, 8>>
      [] w = 32 -> <<4, 2, 9, 4, 9, 6, 7, 2, 9, 6>>
      [] w = 63 -> <<9, 2, 2, 3, 3, 7, 2, 0, 3, 6, 8, 5, 4, 7, 7, 5, 8, 0, 8>>
      [] w = 64 -> <<1, 8, 4, 4, 6, 7, 4, 4, 0, 7, 3, 7, 0, 9, 5, 5, 1, 6, 1, 6>>

RECURSIVE FromNat(_)
FromNat(k) == IF k < 10 THEN <<k>> ELSE FromNat(k \div 10) \o <<k % 10>>

Num(neg, mag) == [neg |-> neg /\ mag # <<0>>, mag |-> mag]

\* ------------------------------------------------------------------------
\* package strconv
\* ------------------------------------------------------------------------
DigitChars == <<"0", "1", "2", "3", "4", "5", "6", "7", "8", "9">>

HexLetters == <<"a", "b", "c", "d", "e", "f">>

UpperHexLetters == <<"A", "B", "C", "D", "E", "F">>

\* the value of character c as a digit, or -1 when it is none (of the
\* letters only a..f and A..F are in the model's alphabet as digits)
DigitValue(c) ==
    IF \E d \in 1..10 : DigitChars[d] = c
    THEN (CHOOSE d \in 1..10 : DigitChars[d] = c) - 1
    ELSE IF \E d \in 1..6 : HexLetters[d] = c
    THEN (CHOOSE d \in 1..6 : HexLetters[d] = c) + 9
    ELSE IF \E d \in 1..6 : UpperHexLetters[d] = c
    THEN (CHOOSE d \in 1..6 : UpperHexLetters[d] = c) + 9
    ELSE -1

ErrSyntax(fn, str) == [Func |-> fn, Num |-> str, Err |-> "ErrSyntax"]

ErrRange(fn, str) == [Func |-> fn, Num |-> str, Err |-> "ErrRange"]

\* the digit loop of strconv.ParseUint: n is the value read so far, d the
\* value of the digit at i, n1 the value with that digit added
RECURSIVE ParseUintLoop(_, _, _, _, _, _)
ParseUintAdded(s, i, base, bitSize, n1, fn) ==
    IF ~MagLess(n1, Pow2(bitSize))
    THEN [val |-> Dec(Pow2(bitSize)), err |-> ErrRange(fn, s)]
    ELSE ParseUintLoop(s, i + 1, base, bitSize, n1, fn)

ParseUintDigit(s, i, base, bitSize, n, fn, d) ==
    IF d < 0 \/ d >= base THEN [val |-> <<0>>, err |-> ErrSyntax(fn, s)]
    ELSE ParseUintAdded(s, i, base, bitSize, MulAdd(n, base, d), fn)

ParseUintLoop(s, i, base, bitSize, n, fn) ==
    IF i > Len(s) THEN [val |-> n, err |-> NoErr]
    ELSE ParseUintDigit(s, i, base, bitSize, n, fn, DigitValue(s[i]))

\* strconv.ParseUint(s, base, bitSize) for an explicit base (10 or 16):
\* no sign, no base prefix and no underscore is accepted
ParseUintAs(s, base, bitSize, fn) ==
    IF s = <<>> THEN [val |-> <<0>>, err |-> ErrSyntax(fn, s)]
    ELSE ParseUintLoop(s, 1, base, bitSize, <<0>>, fn)

\* the magnitude read by ParseUint as a number
Unsigned(r) == [val |-> Num(FALSE, r.val), err |-> r.err]

ParseUint(s, base, bitSize) == Unsigned(ParseUintAs(s, base, bitSize, "ParseUint"))

\* strconv.ParseInt once the magnitude u is read: the sign is applied and
\* the range of bitSize checked against cutoff, 1 << (bitSize - 1)
ParseIntSigned(s, neg, u, cutoff) ==
    IF u.err # NoErr /\ u.err.Err # "ErrRange"
    THEN [val |-> Num(FALSE, <<0>>), err |-> ErrSyntax("ParseInt", s)]
    ELSE IF ~neg /\ ~MagLess(u.val, cutoff)
    THEN [val |-> Num(FALSE, Dec(cutoff)), err |-> ErrRange("ParseInt", s)]
    ELSE IF neg /\ MagLess(cutoff, u.val)
    THEN [val |-> Num(TRUE, cutoff), err |-> ErrRange("ParseInt", s)]
    ELSE [val |-> Num(neg, u.val), err |-> NoErr]

\* strconv.ParseInt(s, base, bitSize)
ParseInt(s, base, bitSize) ==
    IF s = <<>> THEN [val |-> Num(FALSE, <<0>>), err |-> ErrSyntax("ParseInt", s)]
    ELSE ParseIntSigned(s, s[1] = "-",
                        ParseUintAs(IF s[1] = "+" \/ s[1] = "-" THEN Tail(s) ELSE s,
                                    base, bitSize, "ParseInt"),
                        Pow2(bitSize - 1))

\* strconv.FormatInt(v, 10) and strconv.FormatUint(v, 10)
FormatInt(v) ==
    (IF v.neg THEN <<"-">> ELSE <<>>) \o [i \in 1..Len(v.mag) |-> DigitChars[v.mag[i] + 1]]

\* ------------------------------------------------------------------------
\* Wildcard value coercer
\* ------------------------------------------------------------------------
\* strconv.IntSize on a 64 bit platform
IntSize == 64

T_bool == <<"b", "o", "o", "l">>

T_int == <<"i", "n", "t">>

T_int8 == <<"i", "n", "t", "8">>

T_int16 == <<"i", "n", "t", "1", "6">>

T_int32 == <<"i", "n", "t", "3", "2">>

T_int64 == <<"i", "n", "t", "6", "4">>

T_uint == <<"u", "i", "n", "t">>

T_uintptr == <<"u", "i", "n", "t", "p", "t", "r">>

T_uint8 == <<"u", "i", "n", "t", "8">>

T_uint16 == <<"u", "i", "n", "t", "1", "6">>

T_uint32 == <<"u", "i", "n", "t", "3", "2">>

T_uint64 == <<"u", "i", "n", "t", "6", "4">>

T_float32 == <<"f", "l", "o", "a", "t", "3", "2">>

T_float64 == <<"f", "l", "o", "a", "t", "6", "4">>

T_complex64 == <<"c", "o", "m", "p", "l", "e", "x", "6", "4">>

T_complex128 == <<"c", "o", "m", "p", "l", "e", "x", "1", "2", "8">>

T_byte == <<"b", "y", "t", "e">>

T_rune == <<"r", "u", "n", "e">>

T_string == <<"s", "t", "r", "i", "n", "g">>

UpperLetters == <<"A", "E", "F", "L", "R", "S", "T", "U">>

LowerLetters == <<"a", "e", "f", "l", "r", "s", "t", "u">>

\* strings.ToLower over the model's alphabet
ToLower(s) ==
    [i \in 1..Len(s) |->
        IF \E k \in 1..Len(UpperLetters) : UpperLetters[k] = s[i]
        THEN LowerLetters[CHOOSE k \in 1..Len(UpperLetters) : UpperLetters[k] = s[i]]
        ELSE s[i]]

NilValue == [type |-> "nil"]

ErrInvalidWildcardValue(value, typeName, err) ==
    [kind |-> "ErrInvalidWildcardValue", Value |-> value, Type |-> typeName, Err |-> err]

\* whether number n is a value of the integer type of the given width
Representable(n, bits, signed) ==
    IF signed
    THEN IF n.neg THEN MagLeq(n.mag, Pow2(bits - 1)) ELSE MagLess(n.mag, Pow2(bits - 1))
    ELSE ~n.neg /\ MagLess(n.mag, Pow2(bits))

\* the conversion T(n) of a parsed number to the integer type T: the value
\* is kept when T can hold it and is marked as truncated otherwise
ConvertInt(t, bits, signed, n) ==
    [type |-> t, val |-> n, truncated |-> ~Representable(n, bits, signed)]

\* the end of an integer case of parseWildcardValue, r being what strconv
\* returned
IntCase(t, value, typeName, bits, signed, r) ==
    IF r.err # NoErr
    THEN [parsed |-> NilValue, err |-> ErrInvalidWildcardValue(value, typeName, r.err)]
    ELSE [parsed |-> ConvertInt(t, bits, signed, r.val), err |-> NoErr]

\* one signed integer case of parseWildcardValue
SignedCase(t, value, typeName, parseBits, bits) ==
    IntCase(t, value, typeName, bits, TRUE, ParseInt(value, 10, parseBits))

\* the text is parsed as a 64 bit number and then converted
UnsignedCase_Parse64(t, value, typeName, base, parseBits, bits) ==
    IntCase(t, value, typeName, bits, FALSE, ParseUint(value, base, 64))

\* one unsigned integer case of parseWildcardValue
UnsignedCase(t, value, typeName, base, parseBits, bits) ==
    IntCase(t, value, typeName, bits, FALSE, ParseUint(value, base, parseBits))

\* strconv.ParseFloat and strconv.ParseComplex, of which only texts that
\* are decimal integers are told apart from malformed ones; digits is the
\* text after its sign
FloatCaseDigits(t, value, typeName, fn, digits) ==
    IF digits = <<>> \/ \E i \in 1..Len(digits) :
                           ~(\E d \in 1..10 : DigitChars[d] = digits[i])
    THEN [parsed |-> NilValue,
          err |-> ErrInvalidWildcardValue(value, typeName, ErrSyntax(fn, value))]
    ELSE [parsed |-> [type |-> t, val |-> value], err |-> NoErr]

FloatCase(t, value, typeName, fn) ==
    FloatCaseDigits(t, value, typeName, fn,
                    IF Len(value) > 0 /\ (value[1] = "+" \/ value[1] = "-")
                    THEN Tail(value) ELSE value)

\* the bool case of parseWildcardValue, low being the lowered text
BoolCase(value, typeName, low) ==
    IF low = <<"t", "r", "u", "e">>
    THEN [parsed |-> [type |-> "bool", val |-> TRUE], err |-> NoErr]
    ELSE IF low = <<"f", "a", "l", "s", "e">>
    THEN [parsed |-> [type |-> "bool", val |-> FALSE], err |-> NoErr]
    ELSE [parsed |-> NilValue,
          err |-> ErrInvalidWildcardValue(value, typeName,
                      [msg |-> "expected true or false"])]

\* the raw text is passed through as a string
UnrecognizedCase_PassThrough(typeName, value) ==
    [parsed |-> [type |-> "string", val |-> value], err |-> NoErr]

\* the default case of parseWildcardValue
UnrecognizedCase(typeName, value) ==
    [parsed |-> NilValue,
     err |-> ErrInvalidWildcardValue(value, typeName,
                 [msg |-> "unrecognized wildcard type", Type |-> typeName])]

parseWildcardValue(typeName, value) ==
    CASE typeName = T_bool -> BoolCase(value, typeName, ToLower(value))
      [] typeName = T_int -> SignedCase("int", value, typeName, IntSize, IntSize)
      [] typeName = T_int8 -> SignedCase("int8", value, typeName, 8, 8)
      [] typeName = T_int16 -> SignedCase("int16", value, typeName, 16, 16)
      [] typeName = T_int32 -> SignedCase("int32", value, typeName, 32, 32)
      [] typeName = T_int64 -> SignedCase("int64", value, typeName, 64, 64)
      [] typeName = T_uint -> UnsignedCase("uint", value, typeName, 10, IntSize, IntSize)
      [] typeName = T_uintptr -> UnsignedCase("uintptr", value, typeName, 10, IntSize, IntSize)
      [] typeName = T_uint8 -> UnsignedCase("uint8", value, typeName, 10, 8, 8)
      [] typeName = T_uint16 -> UnsignedCase("uint16", value, typeName, 10, 16, 16)
      [] typeName = T_uint32 -> UnsignedCase("uint32", value, typeName, 10, 32, 32)
      [] typeName = T_uint64 -> UnsignedCase("uint64", value, typeName, 10, 64, 64)
      [] typeName = T_float32 -> FloatCase("float32", value, typeName, "ParseFloat")
      [] typeName = T_float64 -> FloatCase("float64", value, typeName, "ParseFloat")
      [] typeName = T_complex64 -> FloatCase("complex64", value, typeName, "ParseComplex")
      [] typeName = T_complex128 -> FloatCase("complex128", value, typeName, "ParseComplex")
      [] typeName = T_byte -> UnsignedCase("uint8", value, typeName, 16, 8, 8)
      [] typeName = T_rune -> SignedCase("int32", value, typeName, 32, 32)
      [] typeName = T_string -> [parsed |-> [type |-> "string", val |-> value], err |-> NoErr]
      [] OTHER -> UnrecognizedCase(typeName, value)

\* the value r parsed for a wildcard, filed under key
Keyed(key, r) == [key |-> key, parsed |-> r.parsed, err |-> r.err]

\* parseWildcard once the wildcard is cut at its first dot
parseWildcardParts(wildcardKey, value, parts) ==
    IF Len(parts) = 1
    THEN [key |-> wildcardKey, parsed |-> [type |-> "string", val |-> value],
          err |-> NoErr]
    ELSE Keyed(parts[1], parseWildcardValue(parts[2], value))

\* the whole wildcard, type suffix included, is used as the key
parseWildcard_WholeKey(wildcardKey, value) ==
    Keyed(wildcardKey,
          parseWildcardParts(wildcardKey, value, SplitN2(wildcardKey, ".")))

parseWildcard(wildcardKey, value) ==
    parseWildcardParts(wildcardKey, value, SplitN2(wildcardKey, "."))

\* ------------------------------------------------------------------------
\* Path parameters
\* ------------------------------------------------------------------------
NilParams == [isNil |-> TRUE, m |-> <<>>]

\* the loop of getPathParameters over patternSegments[:l]; r is what
\* parseWildcard returned for the wildcard at i
RECURSIVE ParamsLoop(_, _, _, _, _)
ParamsLoopParsed(patternSegments, pathSegments, l, i, params, r) ==
    IF r.err # NoErr
    THEN [params |-> NilParams, match |-> FALSE,
          err |-> [kind |-> "FailedToParseWildcard", Err |-> r.err]]
    ELSE ParamsLoop(patternSegments, pathSegments, l, i + 1,
                    [k \in DOMAIN params \cup {r.key} |->
                        IF k = r.key THEN r.parsed ELSE params[k]])

ParamsLoop(patternSegments, pathSegments, l, i, params) ==
    IF i > l THEN [params |-> [isNil |-> FALSE, m |-> params], match |-> TRUE, err |-> NoErr]
    ELSE IF isWildCard(patternSegments[i])
    THEN ParamsLoopParsed(patternSegments, pathSegments, l, i, params,
             parseWildcard(Slice(patternSegments[i], 1, Len(patternSegments[i]) - 1),
                           pathSegments[i]))
    ELSE IF pathSegments[i] # patternSegments[i]
    THEN [params |-> NilParams, match |-> FALSE, err |-> NoErr]
    ELSE ParamsLoop(patternSegments, pathSegments, l, i + 1, params)

\* getPathParameters once both paths are cut into segments
ParamsOfSegments(patternSegments, pathSegments) ==
    LET lp == Len(patternSegments)
    IN  IF lp # Len(pathSegments)
           /\ ~(lp = Len(pathSegments) + 1 /\ patternSegments[lp] = INDEX)
        THEN [params |-> NilParams, match |-> FALSE, err |-> NoErr]
        ELSE ParamsLoop(patternSegments, pathSegments,
                        IF lp # Len(pathSegments) THEN lp - 1 ELSE lp,
                        1, <<>>)

\* getPathParameters once the extended extensions of both paths are known
ParamsOfExts(pattern, targetPath, ext, targetPathExt) ==
    IF ext # targetPathExt
    THEN [params |-> NilParams, match |-> FALSE, err |-> NoErr]
    ELSE ParamsOfSegments(
             getPathSegments(Slice(pattern, 0, Len(pattern) - Len(ext))),
             getPathSegments(Slice(targetPath, 0, Len(targetPath) - Len(ext))))

getPathParameters(pattern, targetPath) ==
    ParamsOfExts(pattern, targetPath, getExtendedExtension(pattern),
                 getExtendedExtension(targetPath))

\* ------------------------------------------------------------------------
\* The template trees and the names the model draws from
\* ------------------------------------------------------------------------
F_a == <<"a", ".", "h", ".", "t">>

F_a_index == <<"a", "/", "i", "n", "d", "e", "x", ".", "h", ".", "t">>

F_index == <<"i", "n", "d", "e", "x", ".", "h", ".", "t">>

F_x == <<"{", "x", "}", ".", "h", ".", "t">>

F_y == <<"{", "y", "}", ".", "h", ".", "t">>

F_a_b == <<"a", "/", "b", ".", "h", ".", "t">>

F_a_x == <<"a", "/", "{", "x", "}", ".", "h", ".", "t">>

F_x_b == <<"{", "x", "}", "/", "b", ".", "h", ".", "t">>

F_x_index == <<"{", "x", "}", "/", "i", "n", "d", "e", "x", ".", "h", ".", "t">>

F_y_index == <<"{", "y", "}", "/", "i", "n", "d", "e", "x", ".", "h", ".", "t">>

F_n8 == <<"{", "n", ".", "i", "n", "t", "8", "}", ".", "h", ".", "t">>

F_a_dot_b == <<"a", ".", "b", ".", "h", ".", "t">>

F_b_noext == <<"b">>

PageUniverse ==
    {F_a, F_a_index, F_index, F_x, F_y, F_a_b, F_a_x, F_x_b, F_x_index, F_y_index, F_n8, F_a_dot_b, F_b_noext}

\* a wildcard with an empty type suffix
F_x_dot == <<"{", "x", ".", "}", ".", "h", ".", "t">>

ComponentUniverse == {F_x, F_a_index, F_x_dot}

N_root == <<>>

N_a == <<"a">>

N_b == <<"b">>

N_a_b == <<"a", "/", "b">>

N_a_slash == <<"a", "/">>

N_slash_a == <<"/", "a">>

N_a_dot_b == <<"a", ".", "b">>

N_5 == <<"5">>

N_300 == <<"3", "0", "0">>

N_index == <<"i", "n", "d", "e", "x">>

N_a_index == <<"a", "/", "i", "n", "d", "e", "x">>

N_a_slash_slash_b == <<"a", "/", "/", "b">>

N_b_b == <<"b", "/", "b">>

\* a name that climbs out of the root
N_up_b == <<".", ".", "/", "b">>

NameUniverse ==
    {N_root, N_a, N_b, N_a_b, N_a_slash, N_slash_a, N_a_dot_b, N_5, N_300, N_index, N_a_index, N_a_slash_slash_b, N_b_b, N_up_b}

\* path.Join(cfg.Dirs.Base, cfg.Dirs.Pages) and the same for components,
\* with the default directory names
PagesDir == "templates/pages"

ComponentsDir == "templates/components"

\* ------------------------------------------------------------------------
\* State
\* ------------------------------------------------------------------------
VARIABLES
    pages,        \* the regular files under the pages root
    components,   \* the regular files under the components root
    out,          \* the outcome of the last public call
    coerce,       \* the outcome of the last wildcard coercion
    source,       \* the contents of the files of the template source directory
    cfg,          \* the configuration of the Templater
    calls,        \* the public call each caller has in progress
    caches,       \* the head caches the calls in progress have created
    heap          \* the props maps of a call in progress and the renders using them

vars == <<pages, components, out, coerce, source, cfg, calls, caches, heap>>

\* the file contents play no part in which file a name resolves to
NoSource == [layout |-> "unread", pages |-> "unread", components |-> "unread"]

\* nor does the function table
NoFuncs == [Funcs |-> "unused"]

Idle == [op |-> "none"]

\* the goroutines that call the Templater
Callers == {1, 2}

NoCalls == [c \in Callers |-> Idle]

\* the maps buildPageFuncMap creates for one page
NewHeadCache == [seen |-> {}, propsSeen |-> [n \in {} |-> <<>>]]

\* a cache together with the log of the componentHead invocations made
\* against it
NewHeads == [cache |-> NewHeadCache, log |-> <<>>]

NoCaches == [c \in Callers |-> NewHeads]

\* no map allocated, no render in progress
NoHeap == [maps |-> <<>>, frames |-> <<>>, returned |-> <<>>]

NilBytes == [isNil |-> TRUE]

\* the output of executing the template parsed from file against props
Rendered(root, file, pathParams) ==
    [isNil |-> FALSE, root |-> root, file |-> file, PathParams |-> pathParams]

Outcome(op, name, match, bytes, err, phases, pathParams) ==
    [op |-> op, name |-> name, match |-> match, bytes |-> bytes, err |-> err,
     phases |-> phases, PathParams |-> pathParams]

\* executePage once getPathParameters has returned pp
executePageWithParams(name, r, pageFiles, pp) ==
    IF pp.err # NoErr
    THEN Outcome("ExecutePage", name, r, NilBytes, pp.err,
                 <<"resolve", "params">>, NilParams)
    ELSE IF r.path \notin pageFiles
    THEN Outcome("ExecutePage", name, r, NilBytes,
                 [kind |-> "FailedToReadPageBody", File |-> r.path],
                 <<"resolve", "params", "parseLayout", "readBody">>,
                 pp.params)
    ELSE Outcome("ExecutePage", name, r,
                 Rendered(PagesDir, r.path, pp.params), NoErr,
                 <<"resolve", "params", "parseLayout", "readBody",
                   "parseBody", "execute">>,
                 pp.params)

\* executePage once findBestFilenameMatchInDir has returned r
executePage(name, r, pageFiles) ==
    IF r.err # NoErr
    THEN Outcome("ExecutePage", name, r, NilBytes, r.err, <<"resolve">>, NilParams)
    ELSE executePageWithParams(name, r, pageFiles,
                               getPathParameters(r.path, name \o FileExt))

\* executeComponent once getPathParameters has returned pp
executeComponentWithParams(name, r, componentFiles, pp) ==
    IF pp.err # NoErr
    THEN Outcome("ExecuteComponent", name, r, NilBytes, pp.err,
                 <<"resolve", "params">>, NilParams)
    ELSE IF r.path \notin componentFiles
    THEN Outcome("ExecuteComponent", name, r, NilBytes,
                 [kind |-> "FailedToParseComponent", File |-> r.path],
                 <<"resolve", "params", "parse">>, pp.params)
    ELSE Outcome("ExecuteComponent", name, r,
                 Rendered(ComponentsDir, r.path, pp.params), NoErr,
                 <<"resolve", "params", "parse", "execute">>,
                 pp.params)

\* executeComponent once findBestFilenameMatchInDir has returned r
executeComponent(name, r, componentFiles) ==
    IF r.err # NoErr
    THEN Outcome("ExecuteComponent", name, r, NilBytes, r.err, <<"resolve">>, NilParams)
    ELSE executeComponentWithParams(name, r, componentFiles,
                                    getPathParameters(r.path, name \o FileExt))

TreesOver(universe, max) ==
    { t \in SUBSET universe : Cardinality(t) <= max }

Init ==
    /\ pages \in TreesOver(PageUniverse, MaxFiles)
    /\ components \in SUBSET ComponentUniverse
    /\ out = Idle
    /\ coerce = Idle
    /\ source = NoSource
    /\ cfg = NoFuncs
    /\ calls = NoCalls
    /\ caches = NoCaches
    /\ heap = NoHeap

\* a public call runs to completion before the caller issues the next one
ExecutePage(name) ==
    /\ out = Idle
    /\ \E r \in findBestFilenameMatchInDir(name, FileExt, pages, PagesDir) :
          out' = executePage(name, r, pages)
    /\ UNCHANGED <<pages, components, coerce, source, cfg, calls, caches, heap>>

ExecuteComponent(name) ==
    /\ out = Idle
    /\ \E r \in findBestFilenameMatchInDir(name, FileExt, components, ComponentsDir) :
          out' = executeComponent(name, r, components)
    /\ UNCHANGED <<pages, components, coerce, source, cfg, calls, caches, heap>>

\* the caller takes the outcome; nothing of the call is retained
Return ==
    /\ out # Idle
    /\ out' = Idle
    /\ UNCHANGED <<pages, components, coerce, source, cfg, calls, caches, heap>>

Next ==
    \/ \E name \in NameUniverse : ExecutePage(name)
    \/ \E name \in NameUniverse : ExecuteComponent(name)
    \/ Return

Spec == Init /\ [][Next]_vars

\* ------------------------------------------------------------------------
\* Vocabulary of the properties
\* ------------------------------------------------------------------------
Called == out.op # "none"

\* the tree the last call searched and the name of its directory
RootFiles == IF out.op = "ExecutePage" THEN pages ELSE components

RootDir == IF out.op = "ExecutePage" THEN PagesDir ELSE ComponentsDir

\* the segments of the name of the last call
Query == getPathSegments(out.name)

IsWildcardSegment(seg) ==
    Len(seg) > 2 /\ seg[1] = "{" /\ seg[Len(seg)] = "}"

\* the segments of a file of the tree, its extension stripped
FileSegments(f) ==
    Split(IF HasSuffix(f, FileExt) THEN SubSeq(f, 1, Len(f) - Len(FileExt)) ELSE f, "/")

SegmentsMatch(segs, q) ==
    \A i \in 1..Len(q) : segs[i] = q[i] \/ IsWildcardSegment(segs[i])

\* a candidate for query q: as many segments as q, each the segment of q or
\* a wildcard, or one segment more, the last being the literal index
IsCandidate(f, q) ==
    LET segs == FileSegments(f)
    IN  \/ (Len(segs) = Len(q) /\ SegmentsMatch(segs, q))
        \/ (Len(segs) = Len(q) + 1 /\ segs[Len(segs)] = INDEX /\ SegmentsMatch(segs, q))

Candidates(files, q) == { f \in files : IsCandidate(f, q) }

LiteralFile(q) == Join(q, <<"/">>) \o FileExt

IndexFile(q) == Join(Append(q, INDEX), <<"/">>) \o FileExt

Resolved(f) == [path |-> f, err |-> NoErr]

\* C1: a name of literal segments whose only candidate is the file at the
\* name's own path resolves to that path, the name's segments joined by
\* "/" plus the extension
C1_LiteralNameResolvesToItsFile ==
    (/\ Called
     /\ \A i \in 1..Len(Query) : ~IsWildcardSegment(Query[i])
     /\ Candidates(RootFiles, Query) = {LiteralFile(Query)})
    => out.match = Resolved(LiteralFile(Query))

C1_Witness ==
    /\ Called
    /\ Len(Query) = 2
    /\ Candidates(RootFiles, Query) = {LiteralFile(Query)}
    /\ out.match = Resolved(LiteralFile(Query))

\* the positions of file f that hold a wildcard segment
WildcardPositions(f, q) ==
    { i \in 1..Len(q) : IsWildcardSegment(FileSegments(f)[i]) /\ FileSegments(f)[i] # q[i] }

\* what the call reports for the wildcard at position i of file f: the
\* coerced segment of the query under the wildcard's key, or the coercion
\* error of that segment
CaptureReported(f, q, i) ==
    LET seg == FileSegments(f)[i]
        c == parseWildcard(SubSeq(seg, 2, Len(seg) - 1), q[i])
    IN  IF c.err = NoErr
        THEN /\ ~out.PathParams.isNil
             /\ c.key \in DOMAIN out.PathParams.m
             /\ out.PathParams.m[c.key] = c.parsed
        ELSE out.err = [kind |-> "FailedToParseWildcard", Err |-> c.err]

\* C2: when the only candidate goes through a wildcard segment at some
\* position, the name resolves to that candidate and the value captured
\* for the wildcard is the segment of the name at that position
C2_SingleWildcardResolvesAndCaptures ==
    (/\ Called
     /\ \E f \in RootFiles :
           /\ Candidates(RootFiles, Query) = {f}
           /\ WildcardPositions(f, Query) # {})
    => \A f \in Candidates(RootFiles, Query) :
           /\ out.match = Resolved(f)
           /\ \A i \in WildcardPositions(f, Query) : CaptureReported(f, Query, i)

\* two candidates that part at position i, both with a wildcard there
SiblingWildcards(f, g, q, i) ==
    /\ f # g
    /\ i \in WildcardPositions(f, q) \cap WildcardPositions(g, q)
    /\ SubSeq(FileSegments(f), 1, i - 1) = SubSeq(FileSegments(g), 1, i - 1)
    /\ FileSegments(f)[i] # FileSegments(g)[i]

\* wildcard candidates compete at position i: no candidate with the same
\* segments before i has the literal segment of the query at i
Competing(files, q) ==
    \E f, g \in Candidates(files, q) : \E i \in 1..Len(q) :
        /\ SiblingWildcards(f, g, q, i)
        /\ SubSeq(FileSegments(f), 1, i - 1) = SubSeq(q, 1, i - 1)
        /\ ~\E h \in Candidates(files, q) :
              SubSeq(FileSegments(h), 1, i) = SubSeq(q, 1, i)

\* C3: competing sibling wildcard candidates make the resolution fail with
\* the ambiguity error, whatever the order of enumeration
C3_CompetingWildcardsAreAmbiguous ==
    (Called /\ Competing(RootFiles, Query))
    => /\ out.match.err.kind = "MultipleWildcardBranches"
       /\ out.match.path = <<>>

\* C4: when the only candidate is the index file of the name's directory,
\* the name resolves to it; the empty name resolves to the root index file
C4_IndexFileFallback ==
    (Called /\ Candidates(RootFiles, Query) = {IndexFile(Query)})
    => out.match = Resolved(IndexFile(Query))

C4_Witness ==
    /\ Called
    /\ Len(Query) = 1
    /\ Candidates(RootFiles, Query) = {IndexFile(Query)}
    /\ out.match = Resolved(IndexFile(Query))

C4_WitnessRoot ==
    /\ Called
    /\ Query = <<>>
    /\ Candidates(RootFiles, Query) = {IndexFile(Query)}
    /\ out.match = Resolved(IndexFile(Query))

\* C5: when both the file of the name and the index file of the name's
\* directory exist, the name resolves to the file of the name
C5_ExactFileBeatsIndex ==
    (/\ Called
     /\ LiteralFile(Query) \in RootFiles
     /\ IndexFile(Query) \in RootFiles)
    => out.match = Resolved(LiteralFile(Query))

\* C6: when the tree holds no candidate, the call fails with
\* ErrNotTemplateFileFound carrying the directory and name + extension,
\* returns no output, and parses and executes nothing
C6_NoCandidateIsNotFound ==
    (Called /\ Candidates(RootFiles, Query) = {})
    => /\ out.match.err = ErrNotTemplateFileFound(RootDir, out.name \o FileExt)
       /\ out.err = out.match.err
       /\ out.bytes = NilBytes
       /\ out.phases = <<"resolve">>

\* C7: whenever a name resolves, PathParams holds exactly one entry per
\* wildcard segment of the resolved file, keyed by the wildcard's name,
\* with the coerced segment of the name at the same position as value
C7_PathParamsPerWildcard ==
    (/\ Called
     /\ out.match.err = NoErr
     /\ out.match.path \in RootFiles
     /\ out.err = NoErr)
    => LET f == out.match.path
           ws == WildcardPositions(f, Query)
           keyAt(i) == parseWildcard(SubSeq(FileSegments(f)[i], 2,
                                            Len(FileSegments(f)[i]) - 1), Query[i]).key
       IN  /\ \A i \in ws : CaptureReported(f, Query, i)
           /\ DOMAIN out.PathParams.m = { keyAt(i) : i \in ws }

\* the type suffix of wildcard segment seg: what follows the first dot
\* between the braces (seg has such a dot)
TypeSuffix(seg) ==
    SubSeq(seg, IndexByte(seg, ".") + 2, Len(seg) - 1)

\* seg is a wildcard with a type suffix outside the vocabulary
HasUnrecognizedType(seg) ==
    /\ IsWildcardSegment(seg)
    /\ IndexByte(seg, ".") >= 0
    /\ TypeSuffix(seg) \notin
          {T_bool, T_int, T_int8, T_int16, T_int32, T_int64, T_uint, T_uintptr,
           T_uint8, T_uint16, T_uint32, T_uint64, T_float32, T_float64,
           T_complex64, T_complex128, T_byte, T_rune, T_string}

UnrecognizedTypeError(typeName, value) ==
    ErrInvalidWildcardValue(value, typeName,
        [msg |-> "unrecognized wildcard type", Type |-> typeName])

\* C11: a public call whose name resolves to a file with a wildcard of
\* unrecognized type suffix returns the "unrecognized wildcard type" error
\* for the captured segment and renders nothing
C11_UnrecognizedTypeFailsCall ==
    (/\ Called
     /\ out.match.err = NoErr
     /\ out.match.path \in RootFiles)
    => \A i \in WildcardPositions(out.match.path, Query) :
           HasUnrecognizedType(FileSegments(out.match.path)[i])
           => /\ out.err.kind = "FailedToParseWildcard"
              /\ out.err.Err =
                    UnrecognizedTypeError(
                        TypeSuffix(FileSegments(out.match.path)[i]), Query[i])
              /\ out.bytes = NilBytes
              /\ out.phases = <<"resolve", "params">>

\* ------------------------------------------------------------------------
\* Coercion on its own: parseWildcard applied to a wildcard and a captured
\* segment
\* ------------------------------------------------------------------------
\* the numbers 0..MaxSmall are among the sampled values
MaxSmall == 20

\* the largest code point
MaxRune == 17 * 65536 - 1

IntWidths == {8, 16, 32, 64}

\* magnitudes at and around the limits of every integer type
LimitMagnitudes ==
    UNION { {Dec(Pow2(w - 1)), Pow2(w - 1), MulAdd(Pow2(w - 1), 1, 1),
             Dec(Pow2(w)), Pow2(w), MulAdd(Pow2(w), 1, 1)} : w \in IntWidths }

SampleMagnitudes ==
    { FromNat(k) : k \in 0..MaxSmall } \cup LimitMagnitudes
        \cup {FromNat(MaxRune), FromNat(MaxRune + 1)}

SampleNumbers == { Num(neg, mag) : neg \in BOOLEAN, mag \in SampleMagnitudes }

OtherTexts ==
    {<<>>,
     <<"-">>,
     <<"+">>,
     <<"a", "b", "c">>,
     <<"f", "f">>,
     <<"1", "_", "0">>,
     <<"0", "x", "1", "f">>,
     <<"1", "e", "3">>,
     <<" ", "1">>,
     <<"1", ".", "5">>,
     <<"y", "e", "s">>,
     <<"t", "r", "u">>,
     <<"t", "r", "u", "e", "e">>,
     <<"t", "r", "u", "e">>,
     <<"f", "a", "l", "s", "e">>,
     <<"T", "R", "U", "E">>,
     <<"T", "r", "u", "e">>,
     <<"t", "R", "u", "E">>,
     <<"F", "A", "L", "S", "E">>,
     <<"F", "a", "l", "s", "e">>,
     <<"f", "A", "l", "S", "e">>,
     <<"+", "5">>,
     <<"0", "0", "7">>,
     <<"-", "0">>}

SampleTexts == { FormatInt(v) : v \in SampleNumbers } \cup OtherTexts

\* the wildcard "x.T" of type name T
TypedKey(typeName) == <<"x", ".">> \o typeName

TypeNames ==
    {T_bool, T_int, T_int8, T_int16, T_int32, T_int64, T_uint, T_uintptr,
     T_uint8, T_uint16, T_uint32, T_uint64, T_float32, T_float64,
     T_complex64, T_complex128, T_byte, T_rune, T_string}

\* type suffixes outside the vocabulary: empty, dotted, of another case,
\* and a word that is no type name
UnknownTypeNames ==
    {<<>>, <<"a", ".", "b">>, <<"I", "n", "t">>, <<"i", "n", "t", "e", "g", "e", "r">>}

SampleKeys ==
    { TypedKey(t) : t \in TypeNames \cup UnknownTypeNames } \cup {<<"x">>}

InitCoerce ==
    /\ pages = {}
    /\ components = {}
    /\ out = Idle
    /\ coerce = Idle
    /\ source = NoSource
    /\ cfg = NoFuncs
    /\ calls = NoCalls
    /\ caches = NoCaches
    /\ heap = NoHeap

ParseWildcard(wildcardKey, value) ==
    /\ coerce = Idle
    /\ coerce' = [op |-> "parseWildcard", wildcardKey |-> wildcardKey,
                  value |-> value, res |-> parseWildcard(wildcardKey, value)]
    /\ UNCHANGED <<pages, components, out, source, cfg, calls, caches, heap>>

\* the caller takes the result
CoerceReturn ==
    /\ coerce # Idle
    /\ coerce' = Idle
    /\ UNCHANGED <<pages, components, out, source, cfg, calls, caches, heap>>

NextCoerce ==
    \/ \E k \in SampleKeys, v \in SampleTexts : ParseWildcard(k, v)
    \/ CoerceReturn

SpecCoerce == InitCoerce /\ [][NextCoerce]_vars

\* the integer types: name, Go type of the value, width, signedness
IntTypes ==
    {[name |-> T_int, type |-> "int", bits |-> IntSize, signed |-> TRUE],
     [name |-> T_int8, type |-> "int8", bits |-> 8, signed |-> TRUE],
     [name |-> T_int16, type |-> "int16", bits |-> 16, signed |-> TRUE],
     [name |-> T_int32, type |-> "int32", bits |-> 32, signed |-> TRUE],
     [name |-> T_int64, type |-> "int64", bits |-> 64, signed |-> TRUE],
     [name |-> T_uint, type |-> "uint", bits |-> IntSize, signed |-> FALSE],
     [name |-> T_uintptr, type |-> "uintptr", bits |-> IntSize, signed |-> FALSE],
     [name |-> T_uint8, type |-> "uint8", bits |-> 8, signed |-> FALSE],
     [name |-> T_uint16, type |-> "uint16", bits |-> 16, signed |-> FALSE],
     [name |-> T_uint32, type |-> "uint32", bits |-> 32, signed |-> FALSE],
     [name |-> T_uint64, type |-> "uint64", bits |-> 64, signed |-> FALSE]}

\* v is a value of integer type t
InType(v, t) ==
    IF t.signed
    THEN IF v.neg THEN MagLeq(v.mag, Pow2(t.bits - 1))
         ELSE MagLess(v.mag, Pow2(t.bits - 1))
    ELSE ~v.neg /\ MagLess(v.mag, Pow2(t.bits))

Coerced == coerce.op # "none"

CoercedTo(typeTag, v) ==
    /\ coerce.res.key = <<"x">>
    /\ coerce.res.err = NoErr
    /\ coerce.res.parsed.type = typeTag
    /\ coerce.res.parsed.val = v
    /\ ~coerce.res.parsed.truncated

\* C8: for every integer type T and every value v of T, coercing the
\* decimal text of v under {x.T} gives key x and the value v of type T
C8_IntegerRoundTrip ==
    \A t \in IntTypes :
        (Coerced /\ coerce.wildcardKey = TypedKey(t.name))
        => \A v \in SampleNumbers :
               (coerce.value = FormatInt(v) /\ InType(v, t))
               => CoercedTo(t.type, v)

C8_Witness ==
    /\ Coerced
    /\ coerce.wildcardKey = TypedKey(T_int64)
    /\ coerce.value = FormatInt(Num(TRUE, Pow2(63)))
    /\ CoercedTo("int64", Num(TRUE, Pow2(63)))

\* C9: coercing the decimal text of a byte value v under {x.byte} gives v,
\* and the decimal text of a code point r under {x.rune} gives r
C9_ByteRuneRoundTrip ==
    /\ (Coerced /\ coerce.wildcardKey = TypedKey(T_byte))
       => \A v \in SampleNumbers :
              (/\ coerce.value = FormatInt(v)
               /\ ~v.neg /\ MagLess(v.mag, Pow2(8)))
              => CoercedTo("uint8", v)
    /\ (Coerced /\ coerce.wildcardKey = TypedKey(T_rune))
       => \A v \in SampleNumbers :
              (/\ coerce.value = FormatInt(v)
               /\ ~v.neg /\ MagLeq(v.mag, FromNat(MaxRune)))
              => CoercedTo("int32", v)

\* the text is the decimal text of a sampled number outside type t
OutOfRangeText(text, t) ==
    \E v \in SampleNumbers : ~InType(v, t) /\ text = FormatInt(v)

NonNumericTexts ==
    { text \in OtherTexts :
        \/ text = <<>>
        \/ \E i \in 1..Len(text) :
              /\ ~(\E d \in 1..10 : DigitChars[d] = text[i])
              /\ ~(i = 1 /\ Len(text) > 1 /\ text[i] \in {"+", "-"}) }

\* the case variants of a lower-case word
CaseVariantOf(text, word, upper) ==
    /\ Len(text) = Len(word)
    /\ \A i \in 1..Len(word) : text[i] = word[i] \/ text[i] = upper[i]

IsBoolText(text) ==
    \/ CaseVariantOf(text, <<"t", "r", "u", "e">>, <<"T", "R", "U", "E">>)
    \/ CaseVariantOf(text, <<"f", "a", "l", "s", "e">>, <<"F", "A", "L", "S", "E">>)

\* the coercion failed with ErrInvalidWildcardValue carrying the raw value,
\* the type name and an underlying error, and produced no value
FailedAsInvalid(typeName) ==
    /\ coerce.res.parsed = NilValue
    /\ coerce.res.err.kind = "ErrInvalidWildcardValue"
    /\ coerce.res.err.Value = coerce.value
    /\ coerce.res.err.Type = typeName
    /\ coerce.res.err.Err # NoErr

\* C10: under an integer type, the text of a number outside the type and any
\* non-numeric text fail with ErrInvalidWildcardValue and yield no value,
\* no coercion ever yields a truncated value, and under bool every text
\* that is no case variant of true or false fails the same way
C10_UnrepresentableFails ==
    /\ \A t \in IntTypes :
          (/\ Coerced
           /\ coerce.wildcardKey = TypedKey(t.name)
           /\ (OutOfRangeText(coerce.value, t) \/ coerce.value \in NonNumericTexts))
          => /\ FailedAsInvalid(t.name)
             /\ coerce.res.err.Err.Err \in {"ErrRange", "ErrSyntax"}
    /\ \A t \in IntTypes :
          (/\ Coerced
           /\ coerce.wildcardKey = TypedKey(t.name)
           /\ coerce.res.err = NoErr)
          => /\ ~coerce.res.parsed.truncated
             /\ InType(coerce.res.parsed.val, t)
    /\ (/\ Coerced
        /\ coerce.wildcardKey = TypedKey(T_bool)
        /\ ~IsBoolText(coerce.value))
       => FailedAsInvalid(T_bool)

C10_Witness ==
    /\ Coerced
    /\ coerce.wildcardKey = TypedKey(T_int8)
    /\ coerce.value = <<"1", "2", "8">>
    /\ FailedAsInvalid(T_int8)
    /\ coerce.res.err.Err.Err = "ErrRange"

\* C11, the coercer alone: under a wildcard whose type suffix is outside
\* the vocabulary every captured value fails with the "unrecognized
\* wildcard type" error and no value is returned
C11_UnrecognizedTypeFailsCoercion ==
    (Coerced /\ \E t \in UnknownTypeNames : coerce.wildcardKey = TypedKey(t))
    => \A t \in UnknownTypeNames :
           coerce.wildcardKey = TypedKey(t)
           => /\ coerce.res.err = UnrecognizedTypeError(t, coerce.value)
              /\ coerce.res.parsed = NilValue

\* ------------------------------------------------------------------------
\* Props: string-keyed maps of values.  A value carries its dynamic type;
\* strings are sequences of characters, as names and keys are
\* ------------------------------------------------------------------------
Str(s) == [type |-> "string", val |-> s]

IntVal(n) == [type |-> "int", int |-> n]

MapVal(m) == [type |-> "map[string]interface {}", map |-> m]

EmptyProps == [k \in {} |-> NilValue]

\* m[k] = v
MapPut(m, k, v) == [x \in DOMAIN m \cup {k} |-> IF x = k THEN v ELSE m[x]]

\* maps.Copy(dst, src)
MapsCopy(dst, src) ==
    [x \in DOMAIN dst \cup DOMAIN src |-> IF x \in DOMAIN src THEN src[x] ELSE dst[x]]

ErrOddArguments(n) == [kind |-> "PropsOddArguments", received |-> n]

ErrKeyNotString(argument, type) ==
    [kind |-> "PropsKeyNotString", argument |-> argument, type |-> type]

\* the loop of NewKVSProps from the 0-based index i on
RECURSIVE NewKVSPropsLoop(_, _, _)
\* the error names the 0-based index of the key
NewKVSPropsLoop_ZeroBased(args, i, props) ==
    IF i >= Len(args) THEN [props |-> props, err |-> NoErr]
    ELSE IF args[i + 1].type # "string"
    THEN [props |-> EmptyProps, err |-> ErrKeyNotString(i, args[i + 1].type)]
    ELSE NewKVSPropsLoop(args, i + 2, MapPut(props, args[i + 1].val, args[i + 2]))

NewKVSPropsLoop(args, i, props) ==
    IF i >= Len(args) THEN [props |-> props, err |-> NoErr]
    ELSE IF args[i + 1].type # "string"
    THEN [props |-> EmptyProps, err |-> ErrKeyNotString(i + 1, args[i + 1].type)]
    ELSE NewKVSPropsLoop(args, i + 2, MapPut(props, args[i + 1].val, args[i + 2]))

NewKVSProps(args) ==
    IF Len(args) % 2 = 1
    THEN [props |-> EmptyProps, err |-> ErrOddArguments(Len(args))]
    ELSE NewKVSPropsLoop(args, 0, EmptyProps)

\* addProps once NewKVSProps has returned additional
addPropsTo(props, additional) ==
    IF additional.err # NoErr
    THEN [props |-> EmptyProps, err |-> additional.err]
    ELSE [props |-> MapsCopy(MapsCopy(EmptyProps, props), additional.props),
          err |-> NoErr]

\* the caller's props are copied over the given ones
addProps_CallerWins(props, kvs) ==
    IF NewKVSProps(kvs).err # NoErr
    THEN [props |-> EmptyProps, err |-> NewKVSProps(kvs).err]
    ELSE [props |-> MapsCopy(NewKVSProps(kvs).props, props), err |-> NoErr]

addProps(props, kvs) == addPropsTo(props, NewKVSProps(kvs))

\* ------------------------------------------------------------------------
\* Template files and template sets.  The text of a file is the sequence of
\* the actions of its top-level template, the templates it defines and
\* whether it parses; a {{block}} is a definition and its invocation
\* ------------------------------------------------------------------------
TextNode(text) == [node |-> "text", text |-> text]

\* {{.key}}
FieldNode(key) == [node |-> "field", key |-> key]

\* {{template "name" .}}
TemplateNode(name) == [node |-> "template", name |-> name]

\* {{fn "name" kvs...}} for component and slot, {{props kvs...}}
CallNode(fn, name, kvs) == [node |-> "call", fn |-> fn, name |-> name, kvs |-> kvs]

FileText(root, defines) == [parses |-> TRUE, root |-> root, defines |-> defines]

Unparsable == [parses |-> FALSE, root |-> <<>>, defines |-> EmptyProps]

\* a template of a set: the root a set is created with has no tree and is
\* not yet associated with the set; a template added with a nil tree is
NewRoot == [state |-> "root", nodes |-> <<>>]

NilTree == [state |-> "nil", nodes |-> <<>>]

Tree(nodes) == [state |-> "tree", nodes |-> nodes]

\* template.New(name)
NewTemplate(name) == [n \in {name} |-> NewRoot]

NoTemplate == [n \in {} |-> NewRoot]

Associated(set, name) == name \in DOMAIN set /\ set[name].state # "root"

\* parse.IsEmptyTree
IsEmptyTree(tree) == tree.nodes = <<>>

\* AddParseTree(name, tree) on a template of the set: associate
\* dereferences a nil tree when the set already has the name, and keeps a
\* non-empty definition when the new tree is empty
AddParseTree(set, name, tree) ==
    IF tree.state # "tree"
    THEN IF Associated(set, name)
         THEN [set |-> set, panic |-> TRUE]
         ELSE [set |-> MapPut(set, name, NilTree), panic |-> FALSE]
    ELSE IF Associated(set, name) /\ IsEmptyTree(tree) /\ set[name].state = "tree"
    THEN [set |-> set, panic |-> FALSE]
    ELSE [set |-> MapPut(set, name, tree), panic |-> FALSE]

\* AddParseTree for every template of trees whose name is in names
RECURSIVE AddParseTrees(_, _, _)
AddParseTreesNext(r, trees, names, name) ==
    IF r.panic THEN r ELSE AddParseTrees(r.set, trees, names \ {name})

AddParseTrees(set, trees, names) ==
    IF names = {} THEN [set |-> set, panic |-> FALSE]
    ELSE AddParseTreesNext(
             AddParseTree(set, CHOOSE n \in names : TRUE,
                          trees[CHOOSE n \in names : TRUE]),
             trees, names, CHOOSE n \in names : TRUE)

\* the trees of the text of a file parsed under the given name
ParsedTrees(name, text) ==
    [n \in DOMAIN text.defines \cup {name} |->
        IF n = name THEN Tree(text.root) ELSE Tree(text.defines[n])]

\* Parse of a file's text by the template of the given name in the set
Parse(set, name, text) ==
    AddParseTrees(set, ParsedTrees(name, text), DOMAIN ParsedTrees(name, text)).set

\* nothing of the parent is imported
ImportKnown_Nothing(set, known) == [set |-> set, panic |-> FALSE]

\* the loop of executeComponent and executeSlot over known.Clone().Templates()
ImportKnown(set, known) == AddParseTrees(set, known, DOMAIN known)

\* ------------------------------------------------------------------------
\* Function tables
\* ------------------------------------------------------------------------
\* funcs.DefaultMap
DefaultMap == [f \in {"props"} |-> "funcs.NewKVSProps"]

\* the two closures buildFuncMap starts its table with
EngineFuncs ==
    [f \in {"component", "slot"} |->
        IF f = "component" THEN "ec.executeComponent" ELSE "ec.executeSlot"]

\* Config.Funcs left nil
NilFuncs == [isNil |-> TRUE, table |-> [f \in {} |-> ""]]

Funcs(table) == [isNil |-> FALSE, table |-> table]

\* With: cfg.setDefaultsToZeroFields on the Funcs field
setDefaultsToZeroFields(cfgFuncs) ==
    IF cfgFuncs.isNil THEN Funcs(DefaultMap) ELSE cfgFuncs

With(cfgFuncs) == [Funcs |-> setDefaultsToZeroFields(cfgFuncs)]

\* WithFuncs: the copy's Funcs builds dst from m and then tm.cfg.Funcs
WithFuncs(config, m) ==
    [Funcs |-> Funcs(MapsCopy(MapsCopy([f \in {} |-> ""], m), config.Funcs.table))]

buildFuncMap(config) ==
    MapsCopy(MapsCopy(EngineFuncs, DefaultMap), config.Funcs.table)

\* ------------------------------------------------------------------------
\* Rendering.  env holds the configuration and the source directory the
\* contexts of one call share; known is the template set of the context a
\* function table is bound to, which is the set under execution; depth
\* counts the nested component and slot renders
\* ------------------------------------------------------------------------
K_PathParams == <<"P", "a", "t", "h", "P", "a", "r", "a", "m", "s">>

N_layout == <<"l", "a", "y", "o", "u", "t">>

N_body == <<"b", "o", "d", "y">>

NoValue == [type |-> "no value"]

Done(outp, log) == [out |-> outp, err |-> NoErr, log |-> log, template |-> NoTemplate]

Failed(err, log) == [out |-> <<>>, err |-> err, log |-> log, template |-> NoTemplate]

\* the error of a template execution stopped by the error of a function
ExecError(fn, err) == [kind |-> "ExecError", Name |-> fn, Err |-> err]

Wrapped(kind, r) ==
    IF r.err = NoErr THEN r
    ELSE [out |-> <<>>, err |-> [kind |-> kind, Err |-> r.err], log |-> r.log,
          template |-> r.template]

\* one enumeration order of the walk; the trees rendered resolve each name
\* to the same file in every order
Resolve(name, files, dirName) ==
    CHOOSE r \in findBestFilenameMatchInDir(name, FileExt, files, dirName) : TRUE

CallEntry(fn, name, props, kvs) ==
    [op |-> "call", fn |-> fn, name |-> name, props |-> props, kvs |-> kvs]

\* the log of a call: the template executions it reached, with the file (for
\* a slot, the definition) executed and the props it was executed against
\* and, for the properties of block visibility, the template set it was
\* executed in and how deeply the render is nested
ExecuteEntry(op, name, file, props, set, depth) ==
    [op |-> op, name |-> name, file |-> file, props |-> props, set |-> set,
     depth |-> depth]

RECURSIVE ExecuteTemplate(_, _, _, _, _)
RECURSIVE ExecuteNodes(_, _, _, _, _, _, _)
RECURSIVE executeComponentIn(_, _, _, _, _)
RECURSIVE executeSlot(_, _, _, _, _)

\* the closure "component" of buildFuncMap once addProps has returned cpy
componentFunc(node, known, env, depth, cpy) ==
    IF cpy.err # NoErr THEN Failed(cpy.err, <<>>)
    ELSE executeComponentIn(known, node.name, cpy.props, env, depth + 1)

\* the closure is bound to a context that holds no template set yet
slotFunc_ContextWithoutTemplate(node, known, env, depth, cpy) ==
    IF cpy.err # NoErr THEN Failed(cpy.err, <<>>)
    ELSE executeSlot(NoTemplate, node.name, cpy.props, env, depth + 1)

\* the closure "slot" of buildFuncMap once addProps has returned cpy
slotFunc(node, known, env, depth, cpy) ==
    IF cpy.err # NoErr THEN Failed(cpy.err, <<>>)
    ELSE executeSlot(known, node.name, cpy.props, env, depth + 1)

\* the function "props"
propsFunc(r) ==
    IF r.err # NoErr THEN Failed(r.err, <<>>)
    ELSE Done(<<[value |-> MapVal(r.props)]>>, <<>>)

\* the call of the function the table holds under the name of the node
CallImpl(impl, node, known, props, env, depth) ==
    IF impl = "ec.executeComponent"
    THEN componentFunc(node, known, env, depth, addProps(props, node.kvs))
    ELSE IF impl = "ec.executeSlot"
    THEN slotFunc(node, known, env, depth, addProps(props, node.kvs))
    ELSE IF impl = "funcs.NewKVSProps"
    THEN propsFunc(NewKVSProps(node.kvs))
    ELSE Done(<<[text |-> impl]>>, <<>>)

\* the result of a function as the result of the action that called it
FuncResult(node, props, r) ==
    [out |-> r.out,
     err |-> IF r.err = NoErr THEN NoErr ELSE ExecError(node.fn, r.err),
     log |-> <<CallEntry(node.fn, node.name, props, node.kvs)>> \o r.log,
     template |-> NoTemplate]

ExecuteNode(node, known, props, env, depth) ==
    IF node.node = "text" THEN Done(<<[text |-> node.text]>>, <<>>)
    ELSE IF node.node = "field"
    THEN Done(<<[value |-> IF node.key \in DOMAIN props THEN props[node.key]
                           ELSE NoValue]>>, <<>>)
    ELSE IF node.node = "template"
    THEN ExecuteTemplate(known, node.name, props, env, depth)
    ELSE FuncResult(node, props,
                 CallImpl(buildFuncMap(env.cfg)[node.fn], node, known, props,
                          env, depth))

\* the walk of a tree once the action at i has produced r
ExecuteNodesNext(nodes, i, known, props, env, depth, acc, r) ==
    IF r.err # NoErr THEN Failed(r.err, acc.log \o r.log)
    ELSE ExecuteNodes(nodes, i + 1, known, props, env, depth,
                      Done(acc.out \o r.out, acc.log \o r.log))

ExecuteNodes(nodes, i, known, props, env, depth, acc) ==
    IF i > Len(nodes) THEN acc
    ELSE ExecuteNodesNext(nodes, i, known, props, env, depth, acc,
                          ExecuteNode(nodes[i], known, props, env, depth))

\* t.ExecuteTemplate(buf, name, props)
ExecuteTemplate(set, name, props, env, depth) ==
    IF name \notin DOMAIN set \/ set[name].state # "tree"
    THEN Failed([kind |-> "NoSuchTemplate", Name |-> name], <<>>)
    ELSE ExecuteNodes(set[name].nodes, 1, set, props, env, depth, Done(<<>>, <<>>))

WithEntry(entry, r) ==
    [out |-> r.out, err |-> r.err, log |-> <<entry>> \o r.log, template |-> r.template]

WithTemplate(set, r) ==
    [out |-> r.out, err |-> r.err, log |-> r.log, template |-> set]

\* what a render holds once its file is resolved and parsed: the matched
\* file, the props with this scope's PathParams and the template set
PrepFailed(err) ==
    [err |-> err, match |-> <<>>, props |-> EmptyProps, template |-> NoTemplate,
     panic |-> FALSE]

Prepared(match, props, t) ==
    [err |-> NoErr, match |-> match, props |-> props, template |-> t.set,
     panic |-> t.panic]

\* executeComponent up to the clone of the parsed set, once
\* getPathParameters has returned pp
componentPrepareWithParams(known, name, props, env, r, pp) ==
    IF pp.err # NoErr THEN PrepFailed(pp.err)
    ELSE IF \/ r.path \notin DOMAIN env.source.components
            \/ ~env.source.components[r.path].parses
    THEN PrepFailed([kind |-> "FailedToParseComponent", Name |-> name])
    ELSE Prepared(r.path, MapPut(props, K_PathParams, MapVal(pp.params)),
                  ImportKnown(Parse(NewTemplate(name), Base(r.path),
                                    env.source.components[r.path]),
                              known))

\* executeComponent up to the clone of the parsed set, once
\* findBestFilenameMatchInDir has returned r
componentPrepare(known, name, props, env, r) ==
    IF r.err # NoErr THEN PrepFailed(r.err)
    ELSE componentPrepareWithParams(known, name, props, env, r,
                                    getPathParameters(r.path, name \o FileExt))

\* the execution of the component's template that ends executeComponent
componentRun(name, prep, env, depth) ==
    IF prep.err # NoErr THEN Failed(prep.err, <<>>)
    ELSE IF prep.panic THEN Failed([kind |-> "Panic", Name |-> name], <<>>)
    ELSE Wrapped("FailedToExecuteComponent",
             WithEntry(ExecuteEntry("executeComponent", name, prep.match, prep.props,
                                    prep.template, depth),
                       ExecuteTemplate(prep.template, Base(prep.match), prep.props,
                                       env, depth)))

\* executeComponent once findBestFilenameMatchInDir has returned r
componentResolved(known, name, props, env, depth, r) ==
    componentRun(name, componentPrepare(known, name, props, env, r), env, depth)

\* executeComponent of the context whose template set is known (none for
\* the context of a public call)
executeComponentIn(known, name, props, env, depth) ==
    IF depth > MaxDepth THEN Failed([kind |-> "StackExhausted"], <<>>)
    ELSE componentResolved(known, name, props, env, depth,
             Resolve(name, DOMAIN env.source.components, ComponentsDir))

\* a slot without a definition name renders nothing
slotImported_AbsentIsEmpty(name, props, env, depth, t) ==
    IF t.panic THEN Failed([kind |-> "Panic", Name |-> name], <<>>)
    ELSE IF \/ (<<"#">> \o name) \notin DOMAIN props
            \/ props[<<"#">> \o name].type # "string"
    THEN Done(<<>>, <<>>)
    ELSE Wrapped("FailedToExecuteSlot",
             WithEntry(ExecuteEntry("executeSlot", name, props[<<"#">> \o name].val,
                                    props, t.set, depth),
                       ExecuteTemplate(t.set, props[<<"#">> \o name].val, props,
                                       env, depth)))

\* executeSlot once the known templates are imported into t
slotImported(name, props, env, depth, t) ==
    IF t.panic THEN Failed([kind |-> "Panic", Name |-> name], <<>>)
    ELSE IF (<<"#">> \o name) \notin DOMAIN props
    THEN Failed([kind |-> "SlotContentNotDefined", Slot |-> name], <<>>)
    ELSE IF props[<<"#">> \o name].type # "string"
    THEN Failed([kind |-> "SlotDefinitionNameNotString", Slot |-> name,
                 Value |-> props[<<"#">> \o name]], <<>>)
    ELSE Wrapped("FailedToExecuteSlot",
             WithEntry(ExecuteEntry("executeSlot", name, props[<<"#">> \o name].val,
                                    props, t.set, depth),
                       ExecuteTemplate(t.set, props[<<"#">> \o name].val, props,
                                       env, depth)))

executeSlot(known, name, props, env, depth) ==
    IF depth > MaxDepth THEN Failed([kind |-> "StackExhausted"], <<>>)
    ELSE IF known = NoTemplate
    THEN Failed([kind |-> "ParentTemplateNotSet"], <<>>)
    ELSE slotImported(name, props, env, depth,
                      ImportKnown(NewTemplate(name), known))

\* the set a Parse that cannot panic leaves
Parsed(set) == [set |-> set, panic |-> FALSE]

\* executePage up to the clone of the layout's set, once getPathParameters
\* has returned pp
pagePrepareWithParams(name, props, env, r, pp) ==
    IF pp.err # NoErr THEN PrepFailed(pp.err)
    ELSE IF ~env.source.layout.parses
    THEN PrepFailed([kind |-> "FailedToParseLayout"])
    ELSE IF r.path \notin DOMAIN env.source.pages
    THEN PrepFailed([kind |-> "FailedToReadPageBody", File |-> r.path])
    ELSE IF ~env.source.pages[r.path].parses
    THEN PrepFailed([kind |-> "FailedToParseBody"])
    ELSE Prepared(r.path, MapPut(props, K_PathParams, MapVal(pp.params)),
             Parsed(Parse(Parse(NewTemplate(N_layout \o FileExt), N_layout \o FileExt,
                                env.source.layout),
                          N_body, env.source.pages[r.path])))

\* executePage up to the clone of the layout's set, once
\* findBestFilenameMatchInDir has returned r
pagePrepare(name, props, env, r) ==
    IF r.err # NoErr THEN PrepFailed(r.err)
    ELSE pagePrepareWithParams(name, props, env, r,
                               getPathParameters(r.path, name \o FileExt))

\* the execution of the layout that ends executePage; template is
\* ec.template when executePage returns
pageRun(name, prep, env) ==
    IF prep.err # NoErr THEN Failed(prep.err, <<>>)
    ELSE WithTemplate(prep.template,
             Wrapped("FailedToExecute",
                 WithEntry(ExecuteEntry("executePage", name, prep.match, prep.props,
                                        prep.template, 0),
                           ExecuteTemplate(prep.template, N_layout \o FileExt,
                                           prep.props, env, 0))))

\* executePage once findBestFilenameMatchInDir has returned r
pageResolved(name, props, env, r) ==
    pageRun(name, pagePrepare(name, props, env, r), env)

\* the errors of a render that wrap the error of a nested render with %w
WrappingKinds ==
    {"ExecError", "FailedToExecute", "FailedToExecuteComponent", "FailedToExecuteSlot"}

\* errors.As(err, &te) for te of type *ErrNotTemplateFileFound: the errors
\* wrapped by the other kinds come from the wildcard coercion and the props
\* validation and hold no not-found error
RECURSIVE AsNotTemplateFileFound(_)
AsNotTemplateFileFound(err) ==
    IF err.kind = "ErrNotTemplateFileFound" THEN TRUE
    ELSE IF err.kind \in WrappingKinds THEN AsNotTemplateFileFound(err.Err)
    ELSE FALSE

NotAttempted == [attempted |-> FALSE]

Attempt(r) == [attempted |-> TRUE, out |-> r.out, err |-> r.err]

\* what execute returns, with the two attempts it made
Executed(outp, err, log, p, c) ==
    [out |-> outp, err |-> err, log |-> log, page |-> p, component |-> c]

\* the error of the component attempt is returned alone
executeFellBack_ComponentErrOnly(p, c) ==
    IF c.err = NoErr
    THEN Executed(c.out, NoErr, p.log \o c.log, Attempt(p), Attempt(c))
    ELSE Executed(<<>>, c.err, p.log \o c.log, Attempt(p), Attempt(c))

\* execute once executeComponent has returned c
executeFellBack(p, c) ==
    IF c.err = NoErr
    THEN Executed(c.out, NoErr, p.log \o c.log, Attempt(p), Attempt(c))
    ELSE Executed(<<>>, [kind |-> "Join", errs |-> <<p.err, c.err>>],
                  p.log \o c.log, Attempt(p), Attempt(c))

\* execute once executePage has returned p
\* (rc is what findBestFilenameMatchInDir returns for the components root)
executeAfterPage(name, props, env, p, rc) ==
    IF p.err = NoErr THEN Executed(p.out, NoErr, p.log, Attempt(p), NotAttempted)
    ELSE IF ~AsNotTemplateFileFound(p.err)
    THEN Executed(<<>>, p.err, p.log, Attempt(p), NotAttempted)
    ELSE executeFellBack(p, componentResolved(p.template, name, props, env, 0, rc))

\* execute, with rp and rc what findBestFilenameMatchInDir returns for the
\* pages root and for the components root
execute(name, props, env, rp, rc) ==
    executeAfterPage(name, props, env, pageResolved(name, props, env, rp), rc)

\* ------------------------------------------------------------------------
\* The source directories, names and key/value lists the renders are
\* checked on
\* ------------------------------------------------------------------------
K_X == <<"X">>

K_hash_s == <<"#", "s">>

N_c == <<"c">>

N_s == <<"s">>

N_d == <<"d">>

N_e == <<"e">>

N_t == <<"t">>

N_m == <<"m">>

F_c == N_c \o FileExt

F_s == N_s \o FileExt

N_a_c == <<"a", "/", "c">>

F_a_c == N_a_c \o FileExt

V_inner == Str(<<"i", "n">>)

V_outer == Str(<<"o", "u", "t">>)

V_slot == Str(<<"s", "l">>)

NoDefines == [n \in {} |-> <<>>]

Define(name, nodes) == [n \in {name} |-> nodes]

L_plain ==
    FileText(<<TextNode("<layout>"), TemplateNode(N_body), TextNode("</layout>")>>,
             NoDefines)

\* a component that shows the props it is executed against
C_show ==
    FileText(<<TextNode("c("), FieldNode(K_X), FieldNode(K_PathParams), TextNode(")")>>,
             NoDefines)

\* a component that declares the slot s
C_slot ==
    FileText(<<TextNode("s["), CallNode("slot", N_s, <<>>), TextNode("]")>>, NoDefines)

\* a component that declares the slot s and gives it a prop of its own
C_slot_kvs ==
    FileText(<<TextNode("s["), CallNode("slot", N_s, <<Str(K_X), V_slot>>),
               TextNode("]")>>, NoDefines)

\* a component whose slot call has a key without a value
C_slot_odd ==
    FileText(<<TextNode("s["), CallNode("slot", N_s, <<Str(K_X)>>), TextNode("]")>>,
             NoDefines)

\* a component that declares the slot s and defines a template d of its own
C_slot_own_d ==
    FileText(<<TextNode("s["), CallNode("slot", N_s, <<>>), TextNode("]")>>,
             Define(N_d, <<TextNode("own")>>))

\* a component that passes its props on to the component s
C_wrap_s ==
    FileText(<<TextNode("w("), CallNode("component", N_s, <<>>), TextNode(")")>>,
             NoDefines)

\* a component that invokes the component a/c, whose file has its own base
\* name
C_nest_a_c ==
    FileText(<<TextNode("o("), CallNode("component", N_a_c, <<>>), TextNode(")")>>,
             NoDefines)

B_text == FileText(<<TextNode("page")>>, NoDefines)

\* the page fills, with its block d, the slot of a component it does not
\* invoke itself
B_slot_chain ==
    FileText(<<CallNode("component", N_c, <<Str(K_hash_s), Str(N_d)>>)>>,
             Define(N_d, <<TextNode("d("), FieldNode(K_X), TextNode(")")>>))

\* the block the page fills the slot s with declares the slot t, which the
\* page fills with its block e
B_slot_in_slot ==
    FileText(<<CallNode("component", N_s, <<Str(K_hash_s), Str(N_d)>>)>>,
             [n \in {N_d, N_e} |->
                 IF n = N_d
                 THEN <<TextNode("d("),
                        CallNode("slot", N_t, <<Str(<<"#", "t">>), Str(N_e)>>),
                        TextNode(")")>>
                 ELSE <<TextNode("e")>>])

\* the block the page fills the slot s with invokes the component that
\* declares the slot
B_slot_recursive ==
    FileText(<<CallNode("component", N_s, <<Str(K_hash_s), Str(N_d)>>)>>,
             Define(N_d, <<TextNode("d("),
                           CallNode("component", N_s, <<Str(K_hash_s), Str(N_d)>>),
                           TextNode(")")>>))

\* the page invokes a component and then another one
B_siblings ==
    FileText(<<CallNode("component", N_s, <<Str(K_hash_s), Str(N_d)>>),
               CallNode("component", N_c, <<>>)>>, NoDefines)

B_scope ==
    FileText(<<FieldNode(K_X),
               CallNode("component", N_c, <<Str(K_X), V_inner>>),
               CallNode("component", N_c, <<>>)>>, NoDefines)

B_given_PathParams ==
    FileText(<<CallNode("component", N_c, <<Str(K_PathParams), V_inner>>)>>, NoDefines)

B_slot_filled ==
    FileText(<<TextNode("p("),
               CallNode("component", N_s, <<Str(K_hash_s), Str(N_d)>>),
               TextNode(")")>>,
             Define(N_d, <<TextNode("d("), FieldNode(K_X), TextNode(")")>>))

\* the page fills the slot with a block that renders nothing
B_slot_empty ==
    FileText(<<TextNode("p("),
               CallNode("component", N_s, <<Str(K_hash_s), Str(N_d)>>),
               TextNode(")")>>,
             Define(N_d, <<>>))

B_slot_absent == FileText(<<CallNode("component", N_s, <<>>)>>, NoDefines)

B_slot_not_string ==
    FileText(<<CallNode("component", N_s, <<Str(K_hash_s), IntVal(7)>>)>>, NoDefines)

B_slot_undefined ==
    FileText(<<CallNode("component", N_s, <<Str(K_hash_s), Str(N_e)>>)>>, NoDefines)

B_slot_direct ==
    FileText(<<CallNode("slot", N_s, <<Str(K_hash_s), Str(N_d)>>)>>,
             Define(N_d, <<TextNode("d("), FieldNode(K_X), TextNode(")")>>))

B_missing == FileText(<<TextNode("p("), CallNode("component", N_m, <<>>)>>, NoDefines)

B_odd == FileText(<<CallNode("component", N_c, <<Str(K_X)>>)>>, NoDefines)

B_key_not_string ==
    FileText(<<CallNode("component", N_c, <<Str(K_X), V_inner, IntVal(7), V_outer>>)>>,
             NoDefines)

B_props ==
    FileText(<<CallNode("props", <<>>, <<Str(K_X), V_inner, Str(K_X), V_outer>>)>>,
             NoDefines)

B_props_key_not_string ==
    FileText(<<TextNode("p("), CallNode("props", <<>>, <<IntVal(7), V_outer>>)>>,
             NoDefines)

PageTexts ==
    {B_text, B_scope, B_given_PathParams, B_slot_filled, B_slot_empty, B_slot_absent,
     B_slot_not_string, B_slot_undefined, B_slot_direct, B_missing, B_odd,
     B_key_not_string, B_props, B_props_key_not_string, B_slot_chain, B_siblings,
     B_slot_in_slot, B_slot_recursive, Unparsable}

NoFiles == [f \in {} |-> Unparsable]

OneFile(f, text) == [g \in {f} |-> text]

PageSources ==
    {NoFiles, OneFile(F_n8, B_scope), OneFile(F_x, B_scope),
     [g \in {F_x, F_y} |-> B_text], OneFile(F_a_x, B_text)}
    \cup { OneFile(F_a, text) : text \in PageTexts }

ComponentSources ==
    {NoFiles,
     [g \in {F_c, F_s} |-> IF g = F_c THEN C_show ELSE C_slot],
     [g \in {F_c, F_s, F_a} |-> IF g = F_s THEN C_slot_kvs ELSE C_show],
     [g \in {F_c, F_s} |-> IF g = F_c THEN Unparsable ELSE C_slot_odd],
     [g \in {F_c, F_s} |-> IF g = F_c THEN C_show ELSE C_slot_own_d],
     [g \in {F_c, F_s} |-> IF g = F_c THEN C_wrap_s ELSE C_slot],
     [g \in {F_c, F_a_c} |-> IF g = F_c THEN C_nest_a_c ELSE C_show],
     OneFile(F_x, C_show),
     OneFile(F_n8, C_show)}

LayoutSources == {L_plain, Unparsable}

SourceUniverse ==
    { [layout |-> l, pages |-> p, components |-> c] :
        l \in LayoutSources, p \in PageSources, c \in ComponentSources }

CallNames == {N_a, N_c, N_s, N_300}

CallKVS ==
    {<<>>, <<Str(K_X), V_outer>>, <<Str(K_X)>>, <<IntVal(7), V_outer>>,
     <<Str(K_X), V_outer, IntVal(7), V_inner>>,
     <<Str(K_X), V_inner, Str(K_X), V_outer>>,
     <<Str(K_PathParams), V_outer>>,
     <<Str(K_hash_s), Str(N_d), Str(K_X), V_outer>>}

\* ------------------------------------------------------------------------
\* The public calls on file contents
\* ------------------------------------------------------------------------
Bytes(r) == IF r.err # NoErr THEN NilBytes ELSE [isNil |-> FALSE, out |-> r.out]

Returned(op, name, kvs, r, page, component) ==
    [op |-> op, name |-> name, kvs |-> kvs, bytes |-> Bytes(r), err |-> r.err,
     log |-> r.log, page |-> page, component |-> component]

ReturnedPage(name, kvs, r) ==
    Returned("ExecutePage", name, kvs, r, Attempt(r), NotAttempted)

ReturnedComponent(name, kvs, r) ==
    Returned("ExecuteComponent", name, kvs, r, NotAttempted, Attempt(r))

\* ExecutePage once NewKVSProps has returned p
ExecutePageWithProps(name, kvs, p, env, r) ==
    IF p.err # NoErr
    THEN Returned("ExecutePage", name, kvs, Failed(p.err, <<>>), NotAttempted, NotAttempted)
    ELSE ReturnedPage(name, kvs, pageResolved(name, p.props, env, r))

\* ExecuteComponent once NewKVSProps has returned p
ExecuteComponentWithProps(name, kvs, p, env, r) ==
    IF p.err # NoErr
    THEN Returned("ExecuteComponent", name, kvs, Failed(p.err, <<>>), NotAttempted,
                  NotAttempted)
    ELSE ReturnedComponent(name, kvs,
                           componentResolved(NoTemplate, name, p.props, env, 0, r))

ReturnedExecute(name, kvs, e) ==
    Returned("Execute", name, kvs, e, e.page, e.component)

\* Execute once NewKVSProps has returned p
ExecuteWithProps(name, kvs, p, env, rp, rc) ==
    IF p.err # NoErr
    THEN Returned("Execute", name, kvs, Failed(p.err, <<>>), NotAttempted, NotAttempted)
    ELSE ReturnedExecute(name, kvs, execute(name, p.props, env, rp, rc))

Env == [cfg |-> cfg, source |-> source]

InitRender ==
    /\ source \in SourceUniverse
    /\ cfg = With(NilFuncs)
    /\ calls = NoCalls
    /\ caches = NoCaches
    /\ heap = NoHeap
    /\ pages = DOMAIN source.pages
    /\ components = DOMAIN source.components
    /\ out = Idle
    /\ coerce = Idle

TemplaterExecutePage(name, kvs) ==
    /\ out = Idle
    /\ \E r \in findBestFilenameMatchInDir(name, FileExt, pages, PagesDir) :
          out' = ExecutePageWithProps(name, kvs, NewKVSProps(kvs), Env, r)
    /\ UNCHANGED <<pages, components, coerce, source, cfg, calls, caches, heap>>

TemplaterExecuteComponent(name, kvs) ==
    /\ out = Idle
    /\ \E r \in findBestFilenameMatchInDir(name, FileExt, components, ComponentsDir) :
          out' = ExecuteComponentWithProps(name, kvs, NewKVSProps(kvs), Env, r)
    /\ UNCHANGED <<pages, components, coerce, source, cfg, calls, caches, heap>>

TemplaterExecute(name, kvs) ==
    /\ out = Idle
    /\ \E rp \in findBestFilenameMatchInDir(name, FileExt, pages, PagesDir),
          rc \in findBestFilenameMatchInDir(name, FileExt, components, ComponentsDir) :
          out' = ExecuteWithProps(name, kvs, NewKVSProps(kvs), Env, rp, rc)
    /\ UNCHANGED <<pages, components, coerce, source, cfg, calls, caches, heap>>

NextRender ==
    \/ \E name \in CallNames, kvs \in CallKVS : TemplaterExecutePage(name, kvs)
    \/ \E name \in CallNames, kvs \in CallKVS : TemplaterExecuteComponent(name, kvs)
    \/ \E name \in CallNames, kvs \in CallKVS : TemplaterExecute(name, kvs)
    \/ Return

SpecRender == InitRender /\ [][NextRender]_vars

\* ------------------------------------------------------------------------
\* Vocabulary of the properties of renders
\* ------------------------------------------------------------------------
\* the positions of the log where a template called the function fn and the
\* render it started went on to execute a template
StartedRenders(fn, op) ==
    { i \in 1..(Len(out.log) - 1) :
        /\ out.log[i].op = "call"
        /\ out.log[i].fn = fn
        /\ out.log[i + 1].op = op
        /\ out.log[i + 1].name = out.log[i].name }

GivenKeys(kvs) == { kvs[2 * j - 1].val : j \in 1..(Len(kvs) \div 2) }

\* the value of the last occurrence of key k in kvs
GivenValue(kvs, k) ==
    kvs[2 * (CHOOSE j \in 1..(Len(kvs) \div 2) :
                /\ kvs[2 * j - 1].val = k
                /\ \A h \in (j + 1)..(Len(kvs) \div 2) : kvs[2 * h - 1].val # k)]

\* what the claim of prop scoping has the callee see under key k
ScopedValue(call, k) ==
    IF k \in GivenKeys(call.kvs) THEN GivenValue(call.kvs, k) ELSE call.props[k]

SeesScoped(call, render, k) ==
    k \in DOMAIN render.props /\ render.props[k] = ScopedValue(call, k)

\* C12 as stated: a component invoked from a page or a component sees the
\* given value under every key it was given and the caller's value under
\* every other key of the caller
C12_PropScoping ==
    Called =>
        \A i \in StartedRenders("component", "executeComponent") :
            \A k \in GivenKeys(out.log[i].kvs) \cup DOMAIN out.log[i].props :
                SeesScoped(out.log[i], out.log[i + 1], k)

\* C12 amended: a component invoked from a page or a component sees the
\* given value under every key it was given and the caller's value under
\* every other key of the caller, for every key other than PathParams
C12_PropScopingButPathParams ==
    Called =>
        \A i \in StartedRenders("component", "executeComponent") :
            \A k \in (GivenKeys(out.log[i].kvs) \cup DOMAIN out.log[i].props)
                     \ {K_PathParams} :
                SeesScoped(out.log[i], out.log[i + 1], k)

\* a render with X = "out" invoked a component with X = "in" and then a
\* sibling without X: the first saw "in" and the second "out"
C12_Witness ==
    /\ Called
    /\ out.err = NoErr
    /\ \E i, j \in StartedRenders("component", "executeComponent") :
          /\ i < j
          /\ out.log[i].props = out.log[j].props
          /\ K_X \in DOMAIN out.log[i].props
          /\ out.log[i].props[K_X] = V_outer
          /\ out.log[i].kvs = <<Str(K_X), V_inner>>
          /\ out.log[j].kvs = <<>>
          /\ out.log[i + 1].props[K_X] = V_inner
          /\ out.log[j + 1].props[K_X] = V_outer
          /\ \E m, n \in DOMAIN out.bytes.out :
                /\ m < n
                /\ out.bytes.out[m] = [value |-> V_inner]
                /\ out.bytes.out[n] = [value |-> V_outer]

\* an even number of arguments with a string at every key position
WellFormed(kvs) ==
    /\ Len(kvs) % 2 = 0
    /\ \A j \in 1..(Len(kvs) \div 2) : kvs[2 * j - 1].type = "string"

\* the positions of the log where a template called the function fn with
\* well-formed arguments
Calls(fn) ==
    { i \in DOMAIN out.log :
        /\ out.log[i].op = "call"
        /\ out.log[i].fn = fn
        /\ WellFormed(out.log[i].kvs) }

InScope(call, k) == k \in GivenKeys(call.kvs) \cup DOMAIN call.props

SlotKey(call) == <<"#">> \o call.name

\* the error at the bottom of the chain of wrapping render errors
RECURSIVE RootCause(_)
RootCause(err) ==
    IF err.kind \in WrappingKinds THEN RootCause(err.Err) ELSE err

CausedBy(err, cause) ==
    IF err.kind = "Join"
    THEN RootCause(err.errs[1]) = cause \/ RootCause(err.errs[2]) = cause
    ELSE RootCause(err) = cause

\* the render errors that wrap the root cause, outermost first
RECURSIVE WrapperKinds(_)
WrapperKinds(err) ==
    IF err.kind \in WrappingKinds THEN <<err.kind>> \o WrapperKinds(err.Err) ELSE <<>>

\* the slot call at position i of the log failed with the given error: it
\* is the last thing the call did, nothing is returned, and the error is
\* wrapped by the error of every enclosing render
SlotFailedWith(i, cause) ==
    /\ i = Len(out.log)
    /\ out.bytes = NilBytes
    /\ out.err # NoErr
    /\ CausedBy(out.err, cause)
    /\ (out.log[i - 1].op = "executeComponent" /\ out.err.kind # "Join")
       => \E n \in DOMAIN WrapperKinds(out.err) :
              /\ WrapperKinds(out.err)[n] = "FailedToExecuteComponent"
              /\ n + 1 = Len(WrapperKinds(out.err))
              /\ WrapperKinds(out.err)[n + 1] = "ExecError"

\* C13: a slot whose props in scope lack "#"+name fails with "slot content
\* not defined", one whose value under that key is not a string fails with
\* "definition name is not a string"; no slot output is produced and the
\* error is the error of the enclosing renders and of the public call
C13_SlotContract ==
    Called =>
        \A i \in Calls("slot") :
            /\ ~InScope(out.log[i], SlotKey(out.log[i]))
               => SlotFailedWith(i, [kind |-> "SlotContentNotDefined",
                                     Slot |-> out.log[i].name])
            /\ (/\ InScope(out.log[i], SlotKey(out.log[i]))
                /\ ScopedValue(out.log[i], SlotKey(out.log[i])).type # "string")
               => SlotFailedWith(i, [kind |-> "SlotDefinitionNameNotString",
                                     Slot |-> out.log[i].name,
                                     Value |-> ScopedValue(out.log[i],
                                                           SlotKey(out.log[i]))])

\* a page invoked a component whose slot had no definition name in scope
C13_Witness ==
    /\ Called
    /\ out.op = "ExecutePage"
    /\ \E i \in Calls("slot") :
          /\ ~InScope(out.log[i], SlotKey(out.log[i]))
          /\ out.log[i - 1].op = "executeComponent"
          /\ out.err.kind = "FailedToExecute"
          /\ RootCause(out.err).kind = "SlotContentNotDefined"

\* the actions of a template that call a function
CallsIn(nodes) == { i \in DOMAIN nodes : nodes[i].node = "call" }

TheCall(nodes) == CHOOSE i \in CallsIn(nodes) : TRUE

IsFlat(nodes) == CallsIn(nodes) = {} /\ \A i \in DOMAIN nodes : nodes[i].node # "template"

\* the output of text and field actions executed against props
Flat(nodes, props) ==
    [i \in DOMAIN nodes |->
        IF nodes[i].node = "text" THEN [text |-> nodes[i].text]
        ELSE [value |-> IF nodes[i].key \in DOMAIN props THEN props[nodes[i].key]
                        ELSE NoValue]]

Before(nodes, i) == SubSeq(nodes, 1, i - 1)

After(nodes, i) == SubSeq(nodes, i + 1, Len(nodes))

ContainsAt(seq, sub) ==
    \E o \in 0..(Len(seq) - Len(sub)) : SubSeq(seq, o + 1, o + Len(sub)) = sub

\* the props in scope of a call made with kvs from a render with props
ScopedProps(props, kvs) ==
    [k \in DOMAIN props \cup GivenKeys(kvs) |->
        IF k \in GivenKeys(kvs) THEN GivenValue(kvs, k) ELSE props[k]]

\* the file of the component the page's first call invokes by its own name
CalledFile == out.log[2].name \o FileExt

CalledText == source.components[CalledFile]

PageText == source.pages[out.log[1].file]

TheSlot == CalledText.root[TheCall(CalledText.root)]

\* the page's first call invokes a component that declares a slot s, with
\* "#"+s mapped to the name of a block the page's own file defines
FilledSlotCase ==
    /\ Called
    /\ 2 \in Calls("component")
    /\ out.log[1].op = "executePage"
    /\ CalledFile \in DOMAIN source.components
    /\ CalledText.parses
    /\ Cardinality(CallsIn(CalledText.root)) = 1
    /\ TheSlot.fn = "slot"
    /\ WellFormed(TheSlot.kvs)
    /\ SlotKey(TheSlot) \notin GivenKeys(TheSlot.kvs)
    /\ IsFlat(Before(CalledText.root, TheCall(CalledText.root)))
    /\ IsFlat(After(CalledText.root, TheCall(CalledText.root)))
    /\ SlotKey(TheSlot) \in GivenKeys(out.log[2].kvs)
    /\ GivenValue(out.log[2].kvs, SlotKey(TheSlot)).type = "string"
    /\ GivenValue(out.log[2].kvs, SlotKey(TheSlot)).val \in DOMAIN PageText.defines
    /\ IsFlat(PageText.defines[GivenValue(out.log[2].kvs, SlotKey(TheSlot)).val])

TheBlock == PageText.defines[GivenValue(out.log[2].kvs, SlotKey(TheSlot)).val]

\* C14: when a caller invokes a component with "#"+s mapped to the name d
\* of a block of the caller's own template and the component declares
\* slot(s), the call succeeds and the output of block d, executed against
\* the slot's props, stands in the component's output where the slot call is
C14_SlotFulfillment ==
    FilledSlotCase =>
        /\ out.err = NoErr
        /\ Len(out.log) >= 5
        /\ out.log[3].op = "executeComponent"
        /\ out.log[3].file = CalledFile
        /\ out.log[5].op = "executeSlot"
        /\ ContainsAt(out.bytes.out,
               Flat(Before(CalledText.root, TheCall(CalledText.root)), out.log[3].props)
               \o Flat(TheBlock, ScopedProps(out.log[3].props, TheSlot.kvs))
               \o Flat(After(CalledText.root, TheCall(CalledText.root)), out.log[3].props))

\* the page attempt of the last Execute failed at its own resolution
PageNotFound ==
    /\ out.page.attempted
    /\ out.page.err = ErrNotTemplateFileFound(PagesDir, out.name \o FileExt)

\* C15: Execute attempts the component only when the page's own resolution
\* returned the not-found error; when a page file resolves and the page
\* attempt fails, Execute returns that error alone
C15_FallbackOnlyOnPageNotFound ==
    (Called /\ out.op = "Execute" /\ out.page.attempted)
    => /\ out.component.attempted => PageNotFound
       /\ (out.page.err # NoErr /\ ~PageNotFound)
          => /\ out.err = out.page.err
             /\ out.bytes = NilBytes
             /\ ~out.component.attempted

\* C16: Execute returns the page output without attempting the component
\* when the page attempt succeeds; when the page attempt fails with the
\* not-found error it returns the component output with a nil error if the
\* component attempt succeeds, and an error holding both the page error and
\* the component error if it fails
C16_ExecuteOutcomes ==
    (Called /\ out.op = "Execute" /\ out.page.attempted)
    => /\ out.page.err = NoErr
          => /\ out.err = NoErr
             /\ out.bytes = [isNil |-> FALSE, out |-> out.page.out]
             /\ ~out.component.attempted
       /\ PageNotFound
          => /\ out.component.attempted
             /\ out.component.err = NoErr
                => /\ out.err = NoErr
                   /\ out.bytes = [isNil |-> FALSE, out |-> out.component.out]
             /\ out.component.err # NoErr
                => /\ out.err = [kind |-> "Join",
                                 errs |-> <<out.page.err, out.component.err>>]
                   /\ out.bytes = NilBytes

\* no page matched the name and the component attempt failed as well
C16_Witness ==
    /\ Called
    /\ out.op = "Execute"
    /\ PageNotFound
    /\ out.component.attempted
    /\ out.component.err # NoErr
    /\ out.err.kind = "Join"

\* the 1-based position of the first key of kvs that is not a string
FirstBadKey(kvs) ==
    2 * (CHOOSE j \in 1..(Len(kvs) \div 2) :
            /\ kvs[2 * j - 1].type # "string"
            /\ \A h \in 1..(j - 1) : kvs[2 * h - 1].type = "string") - 1

\* the error the claim has a malformed key/value list rejected with
RejectionOf(kvs) ==
    IF Len(kvs) % 2 = 1 THEN ErrOddArguments(Len(kvs))
    ELSE ErrKeyNotString(FirstBadKey(kvs), kvs[FirstBadKey(kvs)].type)

\* the positions of the log where a template called a function with a
\* malformed key/value list
MalformedCalls ==
    { i \in DOMAIN out.log : out.log[i].op = "call" /\ ~WellFormed(out.log[i].kvs) }

\* C17: the public calls and the template functions props, component and
\* slot reject an odd-length list, and a list with a key that is not a
\* string with an error naming the position of that argument counted from
\* 1, before anything is resolved, parsed or rendered for the call; the
\* map of a well-formed list holds the last value given for each key
C17_KeyValueLists ==
    Called =>
        /\ ~WellFormed(out.kvs)
           => /\ out.err = RejectionOf(out.kvs)
              /\ out.bytes = NilBytes
              /\ out.log = <<>>
              /\ ~out.page.attempted
              /\ ~out.component.attempted
        /\ WellFormed(out.kvs)
           => /\ out.page.attempted \/ out.component.attempted
              /\ out.log # <<>>
                 => /\ DOMAIN out.log[1].props = GivenKeys(out.kvs) \cup {K_PathParams}
                    /\ \A k \in GivenKeys(out.kvs) \ {K_PathParams} :
                           out.log[1].props[k] = GivenValue(out.kvs, k)
        /\ \A i \in MalformedCalls :
              /\ i = Len(out.log)
              /\ out.bytes = NilBytes
              /\ CausedBy(out.err, RejectionOf(out.log[i].kvs))
        /\ \A i \in Calls("props") :
              out.err = NoErr
              => \E n \in DOMAIN out.bytes.out :
                     out.bytes.out[n] =
                         [value |-> MapVal(ScopedProps(EmptyProps, out.log[i].kvs))]

\* a public call was rejected for its third argument, a key that is not a
\* string
C17_Witness ==
    /\ Called
    /\ Len(out.kvs) = 4
    /\ out.kvs[1].type = "string"
    /\ out.kvs[3].type # "string"
    /\ out.err = ErrKeyNotString(3, out.kvs[3].type)
    /\ out.log = <<>>

\* ------------------------------------------------------------------------
\* The Templater with head fragments (templates.go): pages and components
\* are files named after the name, a page has an optional head, and
\* componentHead renders the head fragment of a component once per
\* argument list
\* ------------------------------------------------------------------------
N_head == <<"h", "e", "a", "d">>

\* a != b for two values held in interfaces: values of one dynamic type
\* that cannot be compared make the comparison panic
Uncomparable(v) == v.type = "map[string]interface {}"

InterfaceCompare(a, b) ==
    IF a.type # b.type THEN "differ"
    ELSE IF Uncomparable(a) THEN "panic"
    ELSE IF a = b THEN "equal"
    ELSE "differ"

\* the loop over the positions of props against one list seen
RECURSIVE MatchFrom(_, _, _)
MatchFromCompared(props, propsSeen, i, cmp) ==
    IF cmp = "equal" THEN MatchFrom(props, propsSeen, i + 1) ELSE cmp

MatchFrom(props, propsSeen, i) ==
    IF i > Len(props) THEN "match"
    ELSE MatchFromCompared(props, propsSeen, i, InterfaceCompare(props[i], propsSeen[i]))

\* the loop over the lists seen for the name
RECURSIVE ScanSeen(_, _, _)
ScanSeenMatched(props, lists, j, m) ==
    IF m = "match" THEN "seen"
    ELSE IF m = "panic" THEN "panic"
    ELSE ScanSeen(props, lists, j + 1)

ScanSeen(props, lists, j) ==
    IF j > Len(lists) THEN "unseen"
    ELSE IF Len(props) # Len(lists[j]) THEN ScanSeen(props, lists, j + 1)
    ELSE ScanSeenMatched(props, lists, j, MatchFrom(props, lists[j], 1))

LookupSeen(cache, name, props) ==
    IF name \notin cache.seen THEN "unseen"
    ELSE ScanSeen(props, cache.propsSeen[name], 1)

SeenLists(cache, name) ==
    IF name \in DOMAIN cache.propsSeen THEN cache.propsSeen[name] ELSE <<>>

RecordSeen(cache, name, props) ==
    [seen |-> cache.seen \cup {name},
     propsSeen |-> MapPut(cache.propsSeen, name, Append(SeenLists(cache, name), props))]

\* what a render of heads carries along: the cache of the page and the
\* log of the componentHead invocations with what became of each
HeadEntry(name, props, result) == [name |-> name, props |-> props, result |-> result]

Logged(h, name, props, result) ==
    [cache |-> h.cache, log |-> Append(h.log, HeadEntry(name, props, result))]

HeadResult(h, outp, err) == [h |-> h, out |-> outp, err |-> err]

\* commonFuncs
commonFuncs(config) ==
    IF config.Funcs.isNil THEN DefaultMap
    ELSE MapsCopy(DefaultMap, config.Funcs.table)

\* the function table of a page
buildPageFuncMap(config) ==
    MapsCopy([f \in {"component", "componentHead"} |->
                 IF f = "component" THEN "tm.ExecuteComponentBody"
                 ELSE "uniqueComponentHeadExecutor"],
             commonFuncs(config))

buildComponentBodyFuncMap(config) ==
    MapsCopy([f \in {"component"} |-> "tm.ExecuteComponentBody"], commonFuncs(config))

buildComponentHeadFuncMap(config) ==
    MapsCopy([f \in {"componentHead"} |-> "uniqueComponentHeadExecutor"],
             commonFuncs(config))

\* a text parses under a function table when it is well formed and every
\* function it calls is in the table
CallsOnly(nodes, table) ==
    \A i \in 1..Len(nodes) : nodes[i].node = "call" => nodes[i].fn \in DOMAIN table

ParsesWith(text, table) ==
    /\ text.parses
    /\ CallsOnly(text.root, table)
    /\ \A n \in DOMAIN text.defines : CallsOnly(text.defines[n], table)

RECURSIVE uniqueComponentHeadExecutor(_, _, _, _, _)
RECURSIVE ExecuteComponentBody(_, _, _, _, _)
RECURSIVE ExecuteNodesWith(_, _, _, _, _, _, _, _)

WrappedHead(kind, name, r) ==
    IF r.err = NoErr THEN r
    ELSE HeadResult(r.h, <<>>, [kind |-> kind, Name |-> name, Err |-> r.err])

\* executeComponentHead once NewKVSProps has returned p
executeComponentHeadWithProps(h, name, p, env, depth) ==
    IF p.err # NoErr THEN HeadResult(h, <<>>, p.err)
    ELSE IF (name \o FileExt) \notin DOMAIN env.source.componentHeads
    THEN HeadResult(h, <<>>, NoErr)
    ELSE IF ~ParsesWith(env.source.componentHeads[name \o FileExt],
                        buildComponentHeadFuncMap(env.cfg))
    THEN HeadResult(h, <<>>, [kind |-> "FailedToParseComponentHead", Name |-> name])
    ELSE IF Base(name \o FileExt) # name \o FileExt
    THEN HeadResult(h, <<>>,
             [kind |-> "FailedToExecuteComponentHead", Name |-> name,
              Err |-> [kind |-> "NoSuchTemplate", Name |-> name \o FileExt]])
    ELSE WrappedHead("FailedToExecuteComponentHead", name,
             ExecuteNodesWith(env.source.componentHeads[name \o FileExt].root, 1,
                              buildComponentHeadFuncMap(env.cfg), h, p.props, env,
                              depth, <<>>))

executeComponentHead(h, name, kvs, env, depth) ==
    IF depth > MaxDepth THEN HeadResult(h, <<>>, [kind |-> "StackExhausted"])
    ELSE executeComponentHeadWithProps(h, name, NewKVSProps(kvs), env, depth)

\* uniqueComponentHeadExecutor once the lists seen have been searched
uniqueComponentHeadExecutorFound(h, name, props, env, depth, found) ==
    IF found = "seen"
    THEN HeadResult(Logged(h, name, props, "deduplicated"), <<>>, NoErr)
    ELSE IF found = "panic"
    THEN HeadResult(Logged(h, name, props, "panic"), <<>>,
                    [kind |-> "Panic", Name |-> name])
    ELSE executeComponentHead(
             [cache |-> RecordSeen(h.cache, name, props),
              log |-> Append(h.log, HeadEntry(name, props, "rendered"))],
             name, props, env, depth + 1)

uniqueComponentHeadExecutor(h, name, props, env, depth) ==
    uniqueComponentHeadExecutorFound(h, name, props, env, depth,
                                     LookupSeen(h.cache, name, props))

\* ExecuteComponentBody once NewKVSProps has returned p
ExecuteComponentBodyWithProps(h, name, p, env, depth) ==
    IF p.err # NoErr THEN HeadResult(h, <<>>, p.err)
    ELSE IF (name \o FileExt) \notin DOMAIN env.source.components
    THEN HeadResult(h, <<>>, [kind |-> "FailedToParseComponent", Name |-> name])
    ELSE IF ~ParsesWith(env.source.components[name \o FileExt],
                        buildComponentBodyFuncMap(env.cfg))
    THEN HeadResult(h, <<>>, [kind |-> "FailedToParseComponent", Name |-> name])
    ELSE WrappedHead("FailedToExecuteComponent", name,
             ExecuteNodesWith(env.source.components[name \o FileExt].root, 1,
                              buildComponentBodyFuncMap(env.cfg), h, p.props, env,
                              depth, <<>>))

ExecuteComponentBody(h, name, kvs, env, depth) ==
    IF depth > MaxDepth THEN HeadResult(h, <<>>, [kind |-> "StackExhausted"])
    ELSE ExecuteComponentBodyWithProps(h, name, NewKVSProps(kvs), env, depth)

\* the output of one action of a template
FieldValue(node, props) ==
    [value |-> IF node.key \in DOMAIN props THEN props[node.key] ELSE NoValue]

HeadFuncError(node, r) ==
    IF r.err = NoErr THEN r ELSE HeadResult(r.h, <<>>, ExecError(node.fn, r.err))

HeadPropsFunc(h, r) ==
    IF r.err # NoErr THEN HeadResult(h, <<>>, r.err)
    ELSE HeadResult(h, <<[value |-> MapVal(r.props)]>>, NoErr)

\* the call of the function the table holds under the name of the node
CallImplWith(impl, node, h, env, depth) ==
    IF impl = "uniqueComponentHeadExecutor"
    THEN uniqueComponentHeadExecutor(h, node.name, node.kvs, env, depth)
    ELSE IF impl = "tm.ExecuteComponentBody"
    THEN ExecuteComponentBody(h, node.name, node.kvs, env, depth + 1)
    ELSE IF impl = "funcs.NewKVSProps"
    THEN HeadPropsFunc(h, NewKVSProps(node.kvs))
    ELSE HeadResult(h, <<[text |-> impl]>>, NoErr)

ExecuteNodeWith(node, table, h, props, env, depth) ==
    IF node.node = "text" THEN HeadResult(h, <<[text |-> node.text]>>, NoErr)
    ELSE IF node.node = "field" THEN HeadResult(h, <<FieldValue(node, props)>>, NoErr)
    ELSE IF node.node = "call"
    THEN HeadFuncError(node, CallImplWith(table[node.fn], node, h, env, depth))
    ELSE HeadResult(h, <<>>, [kind |-> "NoSuchTemplate", Name |-> node.name])

ExecuteNodesWithNext(nodes, i, table, props, env, depth, acc, r) ==
    IF r.err # NoErr THEN r
    ELSE ExecuteNodesWith(nodes, i + 1, table, r.h, props, env, depth, acc \o r.out)

ExecuteNodesWith(nodes, i, table, h, props, env, depth, acc) ==
    IF i > Len(nodes) THEN HeadResult(h, acc, NoErr)
    ELSE ExecuteNodesWithNext(nodes, i, table, props, env, depth, acc,
                              ExecuteNodeWith(nodes[i], table, h, props, env, depth))

\* the templates of the layout with every template action replaced by the
\* template it names; an action whose template is missing stays
RECURSIVE Inline(_, _, _)
InlineNode(set, node, fuel) ==
    IF node.node = "template" /\ fuel > 0 /\ node.name \in DOMAIN set
       /\ set[node.name].state = "tree"
    THEN Inline(set, set[node.name].nodes, fuel - 1)
    ELSE <<node>>

Inline(set, nodes, fuel) ==
    IF nodes = <<>> THEN <<>>
    ELSE InlineNode(set, Head(nodes), fuel) \o Inline(set, Tail(nodes), fuel)

\* ExecutePage of the Templater with heads: the reads and parses of the
\* layout, the optional head and the body
PageParseError(name, env) ==
    IF ~ParsesWith(env.source.layout, buildPageFuncMap(env.cfg))
    THEN [kind |-> "FailedToParseLayout"]
    ELSE IF /\ (name \o FileExt) \in DOMAIN env.source.pageHeads
            /\ ~ParsesWith(env.source.pageHeads[name \o FileExt],
                           buildPageFuncMap(env.cfg))
    THEN [kind |-> "FailedToParseHead"]
    ELSE IF (name \o FileExt) \notin DOMAIN env.source.pages
    THEN [kind |-> "FailedToReadPageBody"]
    ELSE IF ~ParsesWith(env.source.pages[name \o FileExt], buildPageFuncMap(env.cfg))
    THEN [kind |-> "FailedToParseBody"]
    ELSE NoErr

PageHeadSet(name, env, set) ==
    IF (name \o FileExt) \in DOMAIN env.source.pageHeads
    THEN Parse(set, N_head, env.source.pageHeads[name \o FileExt])
    ELSE set

PageTemplates(name, env) ==
    Parse(PageHeadSet(name, env,
                      Parse(NewTemplate(N_layout \o FileExt), N_layout \o FileExt,
                            env.source.layout)),
          N_body, env.source.pages[name \o FileExt])

\* the actions layout.Execute runs, in order
PageProgramOf(set) == Inline(set, set[N_layout \o FileExt].nodes, MaxDepth)

PageProgram(name, env) == PageProgramOf(PageTemplates(name, env))

MissingTemplate(program) == \E i \in 1..Len(program) : program[i].node = "template"

\* what ExecutePage returns
PageReturn(r) ==
    [bytes |-> IF r.err = NoErr THEN [isNil |-> FALSE, out |-> r.out] ELSE NilBytes,
     err |-> r.err]

PageFailed(err) == [bytes |-> NilBytes, err |-> err]

PageExecuted(r) ==
    IF r.err = NoErr THEN PageReturn(r)
    ELSE PageFailed([kind |-> "FailedToExecute", Err |-> r.err])

\* the maps the uniqueComponentHeadExecutor of the call of caller c closes
\* over
\* one pair of maps that every call uses, kept with the Templater
componentHeadSeen_OfTemplater(c) == CHOOSE d \in Callers : \A e \in Callers : d <= e

componentHeadSeen(c) == c

\* the public call of a caller, from its first statement to its return
CallStarted(op, name, kvs) ==
    [op |-> op, name |-> name, kvs |-> kvs, stage |-> "called",
     p |-> NewKVSProps(kvs)]

ReturnedCall(call, result) ==
    [op |-> call.op, name |-> call.name, kvs |-> call.kvs, stage |-> "returned",
     result |-> result]

Executing(call, program, pc, acc) ==
    [op |-> call.op, name |-> call.name, kvs |-> call.kvs, stage |-> "executing",
     p |-> call.p, program |-> program, pc |-> pc, acc |-> acc]

\* the head page once its templates are parsed
PageParsed(call, err, program) ==
    IF err # NoErr THEN ReturnedCall(call, PageFailed(err))
    ELSE IF MissingTemplate(program)
    THEN ReturnedCall(call, PageFailed([kind |-> "FailedToExecute",
                                        Err |-> [kind |-> "NoSuchTemplate"]]))
    ELSE IF program = <<>>
    THEN ReturnedCall(call, PageReturn(HeadResult(NewHeads, <<>>, NoErr)))
    ELSE Executing(call, program, 1, <<>>)

\* the head page once the action at pc has returned r
PageStepped(call, r) ==
    IF r.err # NoErr THEN ReturnedCall(call, PageExecuted(r))
    ELSE IF call.pc = Len(call.program)
    THEN ReturnedCall(call, PageReturn(HeadResult(r.h, call.acc \o r.out, NoErr)))
    ELSE Executing(call, call.program, call.pc + 1, call.acc \o r.out)

\* ExecutePage with nothing else running
ExecutePageAloneParsed(p, err, program, env) ==
    IF p.err # NoErr THEN PageFailed(p.err)
    ELSE IF err # NoErr THEN PageFailed(err)
    ELSE IF MissingTemplate(program)
    THEN PageFailed([kind |-> "FailedToExecute", Err |-> [kind |-> "NoSuchTemplate"]])
    ELSE PageExecuted(ExecuteNodesWith(program, 1, buildPageFuncMap(env.cfg), NewHeads,
                                       p.props, env, 0, <<>>))

ExecutePageAlone(name, kvs, env) ==
    ExecutePageAloneParsed(NewKVSProps(kvs), PageParseError(name, env),
                           IF PageParseError(name, env) = NoErr
                           THEN PageProgram(name, env) ELSE <<>>, env)

\* ------------------------------------------------------------------------
\* Callers that use one Templater at the same time.  A call of the
\* Templater with heads takes a step for the parse and one for each action
\* of the layout; a call of the Templater with slots takes one to build its
\* props and context and one to render
\* ------------------------------------------------------------------------
HeadsOp == "ExecutePage (heads)"

\* ExecutePage of the Templater with heads, up to the return on bad kvs
CallExecutePageHeads(c, name, kvs) ==
    /\ calls[c] = Idle
    /\ calls' = [calls EXCEPT ![c] =
                    IF NewKVSProps(kvs).err # NoErr
                    THEN ReturnedCall(CallStarted(HeadsOp, name, kvs),
                                      PageFailed(NewKVSProps(kvs).err))
                    ELSE CallStarted(HeadsOp, name, kvs)]
    /\ UNCHANGED <<pages, components, out, coerce, source, cfg, caches, heap>>

\* buildPageFuncMap and the parses
PageParse(c) ==
    /\ calls[c].op = HeadsOp
    /\ calls[c].stage = "called"
    /\ caches' = [caches EXCEPT ![componentHeadSeen(c)] = NewHeads]
    /\ calls' = [calls EXCEPT ![c] =
                    PageParsed(calls[c], PageParseError(calls[c].name, Env),
                               IF PageParseError(calls[c].name, Env) = NoErr
                               THEN PageProgram(calls[c].name, Env) ELSE <<>>)]
    /\ UNCHANGED <<pages, components, out, coerce, source, cfg, heap>>

\* the action at pc of the layout, with every call it makes
PageStepWith(c, r) ==
    /\ caches' = [caches EXCEPT ![componentHeadSeen(c)] = r.h]
    /\ calls' = [calls EXCEPT ![c] = PageStepped(calls[c], r)]

PageStep(c) ==
    /\ calls[c].op = HeadsOp
    /\ calls[c].stage = "executing"
    /\ PageStepWith(c, ExecuteNodeWith(calls[c].program[calls[c].pc],
                                       buildPageFuncMap(cfg),
                                       caches[componentHeadSeen(c)],
                                       calls[c].p.props, Env, 0))
    /\ UNCHANGED <<pages, components, out, coerce, source, cfg, heap>>

\* NewKVSProps and newContext of a call of the Templater with slots
CallTemplater(c, op, name, kvs) ==
    /\ calls[c] = Idle
    /\ calls' = [calls EXCEPT ![c] = CallStarted(op, name, kvs)]
    /\ UNCHANGED <<pages, components, out, coerce, source, cfg, caches, heap>>

RunExecutePage(c) ==
    /\ calls[c].op = "ExecutePage"
    /\ calls[c].stage = "called"
    /\ \E r \in findBestFilenameMatchInDir(calls[c].name, FileExt, pages, PagesDir) :
          calls' = [calls EXCEPT ![c] =
                       ReturnedCall(calls[c],
                           ExecutePageWithProps(calls[c].name, calls[c].kvs,
                                                calls[c].p, Env, r))]
    /\ UNCHANGED <<pages, components, out, coerce, source, cfg, caches, heap>>

RunExecuteComponent(c) ==
    /\ calls[c].op = "ExecuteComponent"
    /\ calls[c].stage = "called"
    /\ \E r \in findBestFilenameMatchInDir(calls[c].name, FileExt, components,
                                           ComponentsDir) :
          calls' = [calls EXCEPT ![c] =
                       ReturnedCall(calls[c],
                           ExecuteComponentWithProps(calls[c].name, calls[c].kvs,
                                                     calls[c].p, Env, r))]
    /\ UNCHANGED <<pages, components, out, coerce, source, cfg, caches, heap>>

RunExecute(c) ==
    /\ calls[c].op = "Execute"
    /\ calls[c].stage = "called"
    /\ \E rp \in findBestFilenameMatchInDir(calls[c].name, FileExt, pages, PagesDir),
          rc \in findBestFilenameMatchInDir(calls[c].name, FileExt, components,
                                            ComponentsDir) :
          calls' = [calls EXCEPT ![c] =
                       ReturnedCall(calls[c],
                           ExecuteWithProps(calls[c].name, calls[c].kvs,
                                            calls[c].p, Env, rp, rc))]
    /\ UNCHANGED <<pages, components, out, coerce, source, cfg, caches, heap>>

\* the caller takes the result; the maps of the call are garbage
CallReturn(c) ==
    /\ calls[c].op # "none"
    /\ calls[c].stage = "returned"
    /\ calls' = [calls EXCEPT ![c] = Idle]
    /\ caches' = [caches EXCEPT ![c] = NewHeads]
    /\ UNCHANGED <<pages, components, out, coerce, source, cfg, heap>>

\* ------------------------------------------------------------------------
\* The source directories and calls the callers are checked on
\* ------------------------------------------------------------------------
N_nav == <<"n", "a", "v">>

N_sub == <<"s", "u", "b">>

N_zz == <<"z", "z">>

N_r == <<"r">>

N_n == <<"n">>

N_o == <<"o">>

N_z == <<"z">>

A_item == <<Str(K_X), V_inner>>

A_other == <<Str(K_X), V_outer>>

A_int == <<Str(K_X), IntVal(1)>>

A_digit == <<Str(K_X), Str(<<"1">>)>>

A_map == <<Str(K_X), MapVal(EmptyProps)>>

A_odd == <<Str(K_X)>>

\* a layout with an empty head block and one without a head of its own
L_heads ==
    FileText(<<TextNode("<head>"), TemplateNode(N_head), TextNode("</head>"),
               TemplateNode(N_body)>>,
             Define(N_head, <<>>))

L_no_block ==
    FileText(<<TextNode("<head>"), TemplateNode(N_head), TextNode("</head>"),
               TemplateNode(N_body)>>,
             NoDefines)

PH_nav == FileText(<<CallNode("componentHead", N_nav, A_item)>>, NoDefines)

H_nav == FileText(<<TextNode("nav("), FieldNode(K_X), TextNode(")")>>, NoDefines)

H_sub ==
    FileText(<<TextNode("sub("), CallNode("componentHead", N_nav, A_item),
               TextNode(")")>>, NoDefines)

N_u == <<"u">>

N_v == <<"v">>

N_g == <<"g">>

N_w == <<"w">>

\* two heads that invoke each other with the arguments they were given
H_u ==
    FileText(<<TextNode("u("), CallNode("componentHead", N_v, A_item), TextNode(")")>>,
             NoDefines)

H_v ==
    FileText(<<TextNode("v("), CallNode("componentHead", N_u, A_item), TextNode(")")>>,
             NoDefines)

\* two heads that invoke each other with a map among the arguments
H_g ==
    FileText(<<TextNode("g("), CallNode("componentHead", N_w, A_map), TextNode(")")>>,
             NoDefines)

H_w ==
    FileText(<<TextNode("w("), CallNode("componentHead", N_g, A_map), TextNode(")")>>,
             NoDefines)

\* pages that enter a cycle of heads
B_heads_cycle ==
    FileText(<<CallNode("componentHead", N_u, A_item), TextNode("|"),
               CallNode("componentHead", N_v, A_item)>>, NoDefines)

B_heads_map_cycle ==
    FileText(<<CallNode("componentHead", N_g, A_map)>>, NoDefines)

\* a page that repeats argument lists, the first of which its head has used
B_heads_repeat ==
    FileText(<<CallNode("componentHead", N_nav, A_item),
               CallNode("componentHead", N_nav, A_other),
               CallNode("componentHead", N_nav, A_item),
               CallNode("componentHead", N_nav, <<>>),
               CallNode("componentHead", N_nav, <<>>)>>, NoDefines)

\* a page that repeats an argument list with a map in it
B_heads_map ==
    FileText(<<CallNode("componentHead", N_nav, A_map), TextNode("|"),
               CallNode("componentHead", N_nav, A_map)>>, NoDefines)

\* a page whose head of sub has rendered the head of nav already
B_heads_nested ==
    FileText(<<CallNode("componentHead", N_sub, <<>>),
               CallNode("componentHead", N_nav, A_item),
               CallNode("componentHead", N_sub, <<>>)>>, NoDefines)

\* argument lists that differ in the type of a value only, and a head
\* without a file
B_heads_types ==
    FileText(<<CallNode("componentHead", N_nav, A_int),
               CallNode("componentHead", N_nav, A_digit),
               CallNode("componentHead", N_zz, <<>>),
               CallNode("componentHead", N_zz, <<>>),
               CallNode("componentHead", N_nav, A_int)>>, NoDefines)

\* a head in a subdirectory, and a list without a value for its key
B_heads_odd ==
    FileText(<<CallNode("componentHead", N_zz, A_odd),
               CallNode("componentHead", N_zz, A_odd),
               CallNode("componentHead", N_a_b, <<>>)>>, NoDefines)

HeadPages ==
    [f \in {F_a, N_r \o FileExt, N_m \o FileExt, N_n \o FileExt, N_t \o FileExt,
            N_o \o FileExt, N_u \o FileExt, N_g \o FileExt} |->
        IF f = F_a THEN B_scope
        ELSE IF f = N_u \o FileExt THEN B_heads_cycle
        ELSE IF f = N_g \o FileExt THEN B_heads_map_cycle
        ELSE IF f = N_r \o FileExt THEN B_heads_repeat
        ELSE IF f = N_m \o FileExt THEN B_heads_map
        ELSE IF f = N_n \o FileExt THEN B_heads_nested
        ELSE IF f = N_t \o FileExt THEN B_heads_types
        ELSE B_heads_odd]

HeadSource(layout) ==
    [layout |-> layout,
     pages |-> HeadPages,
     pageHeads |-> OneFile(N_r \o FileExt, PH_nav),
     components |-> OneFile(F_c, C_show),
     componentHeads |->
        [f \in {N_nav \o FileExt, N_sub \o FileExt, F_a_b, N_u \o FileExt,
                N_v \o FileExt, N_g \o FileExt, N_w \o FileExt} |->
            IF f = N_sub \o FileExt THEN H_sub
            ELSE IF f = N_u \o FileExt THEN H_u
            ELSE IF f = N_v \o FileExt THEN H_v
            ELSE IF f = N_g \o FileExt THEN H_g
            ELSE IF f = N_w \o FileExt THEN H_w
            ELSE H_nav]]

HeadSourceUniverse == {HeadSource(L_heads), HeadSource(L_no_block)}

HeadPageNames == {N_a, N_r, N_m, N_n, N_t, N_o, N_z, N_u, N_g}

HeadKVS == {<<>>, A_other, A_odd}

TemplaterOps == {"ExecutePage", "ExecuteComponent", "Execute"}

TemplaterNames == {N_a, N_c}

TemplaterKVS == {A_other, A_odd}

InitCalls ==
    /\ source \in HeadSourceUniverse
    /\ cfg = With(NilFuncs)
    /\ calls = NoCalls
    /\ caches = NoCaches
    /\ heap = NoHeap
    /\ pages = DOMAIN source.pages
    /\ components = DOMAIN source.components
    /\ out = Idle
    /\ coerce = Idle

NextCalls ==
    \/ \E c \in Callers, name \in HeadPageNames, kvs \in HeadKVS :
          CallExecutePageHeads(c, name, kvs)
    \/ \E c \in Callers : PageParse(c)
    \/ \E c \in Callers : PageStep(c)
    \/ \E c \in Callers, op \in TemplaterOps, name \in TemplaterNames,
          kvs \in TemplaterKVS : CallTemplater(c, op, name, kvs)
    \/ \E c \in Callers : RunExecutePage(c)
    \/ \E c \in Callers : RunExecuteComponent(c)
    \/ \E c \in Callers : RunExecute(c)
    \/ \E c \in Callers : CallReturn(c)

SpecCalls == InitCalls /\ [][NextCalls]_vars

\* ------------------------------------------------------------------------
\* Properties of the head fragments and of callers running together
\* ------------------------------------------------------------------------
\* the componentHead invocations the page of caller c has made so far
HeadLog(c) == caches[c].log

SeenBefore(log, i) ==
    \E j \in 1..(i - 1) : log[j].name = log[i].name /\ log[j].props = log[i].props

HeadCallers == { c \in Callers : calls[c].op = HeadsOp }

\* C18: within one ExecutePage call every componentHead invocation whose
\* name and argument list (same length, equal values at every position)
\* were invoked before returns empty output with no error, and every other
\* invocation renders the head fragment of the name
C18_HeadDedup ==
    \A c \in HeadCallers : \A i \in 1..Len(HeadLog(c)) :
        HeadLog(c)[i].result =
            IF SeenBefore(HeadLog(c), i) THEN "deduplicated" ELSE "rendered"

\* ------------------------------------------------------------------------
\* Configuring the function table.  The callers go on with the Templater
\* that With and WithFuncs return
\* ------------------------------------------------------------------------
ByConfig == "injected through Config.Funcs"

ByWithFuncs == "injected through WithFuncs"

EngineNames == {"props", "component", "slot"}

\* the tables a caller injects: some of the engine's names and a name of
\* its own
InjectedNames == SUBSET (EngineNames \cup {"upper"})

InjectedBy(route) == { [f \in names |-> route] : names \in InjectedNames }

B_funcs ==
    FileText(<<CallNode("props", <<>>, A_item), CallNode("component", N_c, <<>>)>>,
             NoDefines)

FuncsSource ==
    [layout |-> L_plain, pages |-> OneFile(F_a, B_funcs),
     components |-> OneFile(F_c, C_show)]

Configured(op, m) == [op |-> op, m |-> m]

\* tm.With(Config{Funcs: ...})
TemplaterWith(cfgFuncs) ==
    /\ out = Idle
    /\ cfg' = With(cfgFuncs)
    /\ out' = Configured("With", cfgFuncs.table)
    /\ UNCHANGED <<pages, components, coerce, source, calls, caches, heap>>

\* tm.WithFuncs(m)
TemplaterWithFuncs(m) ==
    /\ out = Idle
    /\ cfg' = WithFuncs(cfg, m)
    /\ out' = Configured("WithFuncs", m)
    /\ UNCHANGED <<pages, components, coerce, source, calls, caches, heap>>

InitFuncs ==
    /\ source = FuncsSource
    /\ cfg = With(NilFuncs)
    /\ calls = NoCalls
    /\ caches = NoCaches
    /\ heap = NoHeap
    /\ pages = DOMAIN source.pages
    /\ components = DOMAIN source.components
    /\ out = Idle
    /\ coerce = Idle

NextFuncs ==
    \/ \E m \in InjectedBy(ByConfig) : TemplaterWith(Funcs(m))
    \/ TemplaterWith(NilFuncs)
    \/ \E m \in InjectedBy(ByWithFuncs) : TemplaterWithFuncs(m)
    \/ TemplaterExecutePage(N_a, <<>>)
    \/ Return

SpecFuncs == InitFuncs /\ [][NextFuncs]_vars

\* C19: once the caller has injected a table, through Config.Funcs or
\* through WithFuncs, every engine name (props, component, slot) the table
\* defines is mapped to a function of the caller by the table the
\* templates are parsed and executed with
C19_CallerFunctionsWin ==
    out.op \in {"With", "WithFuncs"} =>
        \A f \in DOMAIN out.m \cap EngineNames :
            buildFuncMap(cfg)[f] \in {ByConfig, ByWithFuncs}

\* what the call returns when no other call runs on the Templater, for
\* each order in which the directory walk may visit the files
Alone(call) ==
    IF call.op = HeadsOp THEN {ExecutePageAlone(call.name, call.kvs, Env)}
    ELSE IF call.op = "ExecutePage"
    THEN { ExecutePageWithProps(call.name, call.kvs, NewKVSProps(call.kvs), Env, r) :
             r \in findBestFilenameMatchInDir(call.name, FileExt, pages, PagesDir) }
    ELSE IF call.op = "ExecuteComponent"
    THEN { ExecuteComponentWithProps(call.name, call.kvs, NewKVSProps(call.kvs), Env, r) :
             r \in findBestFilenameMatchInDir(call.name, FileExt, components,
                                              ComponentsDir) }
    ELSE { ExecuteWithProps(call.name, call.kvs, NewKVSProps(call.kvs), Env, rp, rc) :
             rp \in findBestFilenameMatchInDir(call.name, FileExt, pages, PagesDir),
             rc \in findBestFilenameMatchInDir(call.name, FileExt, components,
                                               ComponentsDir) }

ReturnedCallers == { c \in Callers : calls[c].op # "none" /\ calls[c].stage = "returned" }

ReturnAsAlone == \A c \in ReturnedCallers : calls[c].result \in Alone(calls[c])

\* C20: no step of a top-level call writes to the Templater, its
\* configuration or the source directory, and however the steps of two
\* calls interleave, each call has returned what it returns when run alone
\* (every state of the callers has a next step, so the steps start from
\* every state with a returned call)
C20_CallsIndependent ==
    [][/\ cfg' = cfg
       /\ source' = source
       /\ pages' = pages
       /\ components' = components
       /\ ReturnAsAlone]_vars

\* both callers hold the result of a page with heads, and the head of nav
\* that the page of the first deduplicated was rendered by the page of the
\* second
C20_Witness ==
    /\ ReturnedCallers = Callers
    /\ \A c \in Callers : calls[c].op = HeadsOp /\ calls[c].result.err = NoErr
    /\ \E i \in 1..Len(HeadLog(1)), j \in 1..Len(HeadLog(2)) :
          /\ HeadLog(1)[i] = HeadEntry(N_nav, A_item, "deduplicated")
          /\ HeadLog(2)[j] = HeadEntry(N_nav, A_item, "rendered")

\* ------------------------------------------------------------------------
\* Properties of the directory walk and of the segment-tree walk
\* ------------------------------------------------------------------------
\* the segment tree of the last call: the nodes of the entries the walk of
\* the directory collected
CollectedTree ==
    UNION { Prefixes(WalkSegments(f, FileExt)) :
              f \in MatchedFiles(RootFiles, Query, FileExt) }

\* the segments of the path the last call resolved to
ResultSegments == FileSegments(out.match.path)

\* the path P through the tree takes the literal branch wherever there is
\* one
PrefersLiterals(P, tree, q) ==
    \A j \in 1..Len(P) :
        Append(SubSeq(P, 1, j - 1), q[j]) \in tree => P[j] = q[j]

\* a position of the tree without a branch for the segment of the query
\* and with several branches, reached by taking the literal branches
AmbiguousPosition(tree, q) ==
    \E P \in tree \cup {<<>>} :
        /\ Len(P) < Len(q)
        /\ PrefersLiterals(P, tree, q)
        /\ Append(P, q[Len(P) + 1]) \notin tree
        /\ Cardinality(Children(tree, P)) > 1

\* C21: at every position where the branch the walk is in has the segment
\* of the query as a literal child the resolved path takes that child,
\* however many wildcard siblings there are, and the ambiguity error
\* arises only at a position without such a child
C21_LiteralBeatsWildcards ==
    Called =>
        /\ out.match.err = NoErr =>
              PrefersLiterals(SubSeq(ResultSegments, 1, Len(Query)), CollectedTree, Query)
        /\ out.match.err.kind = "MultipleWildcardBranches" =>
              AmbiguousPosition(CollectedTree, Query)
        /\ Query \in CollectedTree => out.match.err = NoErr

\* the name resolved to its literal file past two wildcard siblings
C21_Witness ==
    /\ Called
    /\ Len(Query) = 1
    /\ Cardinality({ k \in Children(CollectedTree, <<>>) : IsWildcardSegment(k) }) = 2
    /\ out.match = Resolved(LiteralFile(Query))
    /\ LiteralFile(Query) \in RootFiles

\* C22: the entries the walk of the directory collects for a name are the
\* files with as many segments as the name, each the segment of the name
\* or a wildcard, and the files with one segment more that match in the
\* same way and end in the literal index; nothing else is collected
C22_CollectedAreTheCandidates ==
    Called => MatchedFiles(RootFiles, Query, FileExt) = Candidates(RootFiles, Query)

\* C23: a path returned without error is a regular file enumerated under
\* the root directory, and none of its segments is "..".
C23_ResultIsAnEnumeratedFile ==
    (Called /\ out.match.err = NoErr) =>
        /\ out.match.path \in RootFiles
        /\ \A i \in 1..Len(ResultSegments) : ResultSegments[i] # <<".", ".">>

\* a call of ExecutePage whose props were accepted, so that executePage ran
PageAttempted == Called /\ out.op = "ExecutePage" /\ out.page.attempted

NoPageFile == Candidates(RootFiles, Query) = {}

\* errors.As(err, &e) for e of type *ErrInvalidWildcardValue, on the errors
\* executePage returns before it executes
AsInvalidWildcardValue(err) ==
    err.kind = "FailedToParseWildcard" /\ err.Err.kind = "ErrInvalidWildcardValue"

\* every page file the name matches holds a value its wildcard rejects
BadWildcardValue ==
    /\ ~NoPageFile
    /\ \A f \in Candidates(RootFiles, Query) :
          AsInvalidWildcardValue(getPathParameters(f, out.name \o FileExt).err)

\* C24: executePage resolves the name and coerces its wildcard values before
\* it reads or parses the layout, parses layout and body before it executes,
\* and executes last: a name with no page file fails with NotFound and a bad
\* wildcard value with InvalidWildcardValue whatever the layout is, and in
\* both cases nothing is executed.
C24_PhaseOrder ==
    PageAttempted =>
        /\ NoPageFile =>
              out.err.kind = "ErrNotTemplateFileFound" /\ out.log = <<>>
        /\ BadWildcardValue =>
              AsInvalidWildcardValue(out.err) /\ out.log = <<>>
        /\ out.err.kind = "FailedToParseLayout" =>
              ~NoPageFile /\ ~BadWildcardValue
        /\ out.err.kind \in {"FailedToReadPageBody", "FailedToParseBody"} =>
              source.layout.parses
        /\ out.log # <<>> =>
              /\ source.layout.parses
              /\ out.err.kind \in {"nil", "FailedToExecute"}

\* ------------------------------------------------------------------------
\* The props maps as objects.  A Go map is a reference: the closures of
\* buildFuncMap hold the map of their render, and a write through any
\* reference to it is seen through every other.  heap.maps is the contents
\* of the maps by address, heap.frames the renders in progress, innermost
\* last, each with the address of the map it executes against.
\* ------------------------------------------------------------------------
MaxNesting == 3

\* a map allocated at the next free address
Allocated(maps, m) == [maps |-> Append(maps, m), addr |-> Len(maps) + 1]

\* the additional props are written into the map of the caller
addPropsAt_InPlace(maps, addr, additional) ==
    [maps |-> [maps EXCEPT ![addr] = MapsCopy(@, additional.props)], addr |-> addr]

\* make and the two maps.Copy of addProps, on the map at addr
addPropsAt(maps, addr, additional) ==
    Allocated(maps, addPropsTo(maps[addr], additional).props)

\* a render against the map at addr, called from the render whose map is
\* at caller and held the contents before when it made the call
Frame(addr, caller, before) == [addr |-> addr, caller |-> caller, before |-> before]

\* what a nested call left: the caller's map before and after it, and the
\* map the nested render executed against
NestedReturn(before, after, callee, failed) ==
    [before |-> before, after |-> after, callee |-> callee, failed |-> failed]

\* the file a name resolved to
Match(file, name) == [file |-> file, name |-> name]

NoMatch == [file |-> <<>>, name |-> <<>>]

PropsMatches == {Match(F_x, N_a), Match(F_c, N_c), Match(F_n8, N_300), NoMatch}

PropsKVS ==
    {<<>>, <<Str(K_X), V_inner>>, <<Str(K_PathParams), V_inner>>, <<Str(K_X)>>}

PathParamsOf(m) == getPathParameters(m.file, m.name \o FileExt)

InitProps ==
    /\ heap = NoHeap
    /\ pages = {}
    /\ components = {}
    /\ out = Idle
    /\ coerce = Idle
    /\ source = NoSource
    /\ cfg = NoFuncs
    /\ calls = NoCalls
    /\ caches = NoCaches

\* ExecutePage or ExecuteComponent up to the execution of the template: the
\* props are built from kvs and the render writes its PathParams into them
PropsPublicCall(kvs, m) ==
    /\ heap.frames = <<>>
    /\ NewKVSProps(kvs).err = NoErr
    /\ m # NoMatch
    /\ PathParamsOf(m).err = NoErr
    /\ heap' = [maps |-> <<MapPut(NewKVSProps(kvs).props, K_PathParams,
                                  MapVal(PathParamsOf(m).params))>>,
                frames |-> <<Frame(1, 0, EmptyProps)>>,
                returned |-> <<>>]
    /\ UNCHANGED <<pages, components, out, coerce, source, cfg, calls, caches>>

Top == heap.frames[Len(heap.frames)]

\* executeComponent on the map cpy.addr once addProps has returned it
PropsComponentWith(m, before, cpy) ==
    IF m = NoMatch \/ PathParamsOf(m).err # NoErr
    THEN heap' = [maps |-> SubSeq(cpy.maps, 1, Top.addr),
                  frames |-> heap.frames,
                  returned |-> <<NestedReturn(before, cpy.maps[Top.addr],
                                              cpy.maps[cpy.addr], TRUE)>>]
    ELSE heap' = [maps |-> [cpy.maps EXCEPT ![cpy.addr] =
                               MapPut(@, K_PathParams, MapVal(PathParamsOf(m).params))],
                  frames |-> Append(heap.frames, Frame(cpy.addr, Top.addr, before)),
                  returned |-> <<>>]

\* the closure "component" of the render in progress is called with kvs and
\* its name resolves to m
PropsComponent(kvs, m) ==
    /\ heap.frames # <<>>
    /\ Len(heap.frames) <= MaxNesting
    /\ NewKVSProps(kvs).err = NoErr
    /\ PropsComponentWith(m, heap.maps[Top.addr],
                          addPropsAt(heap.maps, Top.addr, NewKVSProps(kvs)))
    /\ UNCHANGED <<pages, components, out, coerce, source, cfg, calls, caches>>

\* the closure "slot" of the render in progress is called with kvs;
\* executeSlot writes nothing into the map it is given
PropsSlotWith(before, cpy) ==
    heap' = [maps |-> cpy.maps,
             frames |-> Append(heap.frames, Frame(cpy.addr, Top.addr, before)),
             returned |-> <<>>]

PropsSlot(kvs) ==
    /\ heap.frames # <<>>
    /\ Len(heap.frames) <= MaxNesting
    /\ NewKVSProps(kvs).err = NoErr
    /\ PropsSlotWith(heap.maps[Top.addr],
                     addPropsAt(heap.maps, Top.addr, NewKVSProps(kvs)))
    /\ UNCHANGED <<pages, components, out, coerce, source, cfg, calls, caches>>

\* a closure is called with a key-value list addProps rejects
PropsRejected(kvs) ==
    /\ heap.frames # <<>>
    /\ NewKVSProps(kvs).err # NoErr
    /\ heap' = [heap EXCEPT !.returned =
                   <<NestedReturn(heap.maps[Top.addr], heap.maps[Top.addr],
                                  EmptyProps, TRUE)>>]
    /\ UNCHANGED <<pages, components, out, coerce, source, cfg, calls, caches>>

\* the innermost render returns, with output or with an error; the maps
\* only it referred to are garbage
PropsReturn(failed) ==
    /\ heap.frames # <<>>
    /\ heap' = IF Len(heap.frames) = 1 THEN NoHeap
               ELSE [maps |-> SubSeq(heap.maps, 1, Top.caller),
                     frames |-> SubSeq(heap.frames, 1, Len(heap.frames) - 1),
                     returned |-> <<NestedReturn(Top.before, heap.maps[Top.caller],
                                                 heap.maps[Top.addr], failed)>>]
    /\ UNCHANGED <<pages, components, out, coerce, source, cfg, calls, caches>>

NextProps ==
    \/ \E kvs \in PropsKVS, m \in PropsMatches : PropsPublicCall(kvs, m)
    \/ \E kvs \in PropsKVS, m \in PropsMatches : PropsComponent(kvs, m)
    \/ \E kvs \in PropsKVS : PropsSlot(kvs)
    \/ \E kvs \in PropsKVS : PropsRejected(kvs)
    \/ \E failed \in BOOLEAN : PropsReturn(failed)

SpecProps == InitProps /\ [][NextProps]_vars

\* C25: a nested component or slot call leaves the map of its caller as it
\* was, while the nested render runs and after it has returned with output
\* or with an error, the caller's PathParams included.
C25_CopyOnExtend ==
    /\ \A i \in 2..Len(heap.frames) :
          heap.maps[heap.frames[i].caller] = heap.frames[i].before
    /\ \A j \in 1..Len(heap.returned) :
          heap.returned[j].after = heap.returned[j].before

\* a nested render that was given a prop its caller does not have and wrote
\* a PathParams of its own has failed
C25_Witness ==
    /\ Len(heap.returned) = 1
    /\ heap.returned[1].failed
    /\ K_X \in DOMAIN heap.returned[1].callee
    /\ K_X \notin DOMAIN heap.returned[1].before
    /\ K_PathParams \in DOMAIN heap.returned[1].callee
    /\ heap.returned[1].callee[K_PathParams] # heap.returned[1].before[K_PathParams]

\* the positions of the log where a template was executed
Renders ==
    { i \in DOMAIN out.log :
        out.log[i].op \in {"executePage", "executeComponent", "executeSlot"} }

\* C27: executeComponent executes the block parsed from the component's own
\* resolved file, whatever templates of the same name the caller's set holds.
C27_ComponentRendersItsOwnFile ==
    Called =>
        \A i \in Renders :
            out.log[i].op = "executeComponent"
            => out.log[i].set[Base(out.log[i].file)]
                   = Tree(source.components[out.log[i].file].root)

\* the named templates a set can execute
Blocks(set) == { n \in DOMAIN set : set[n].state = "tree" }

\* the renders the render at i of the log is nested in
Ancestors(i) ==
    { j \in Renders :
        /\ j < i
        /\ out.log[j].depth < out.log[i].depth
        /\ \A k \in Renders : (j < k /\ k < i) => out.log[k].depth > out.log[j].depth }

\* the named templates the file of a render provides; a slot has no file
Own(entry) ==
    IF entry.op = "executePage"
    THEN DOMAIN source.layout.defines \cup DOMAIN source.pages[entry.file].defines
         \cup {N_layout \o FileExt, N_body}
    ELSE IF entry.op = "executeComponent"
    THEN DOMAIN source.components[entry.file].defines \cup {Base(entry.file)}
    ELSE {}

\* what the render at i and the renders it is nested in provide
OwnOrInherited(i) ==
    Own(out.log[i]) \cup UNION { Own(out.log[a]) : a \in Ancestors(i) }

\* C26: a component or slot render can execute every block its caller and
\* the callers of its caller define, and none that only a component it is
\* not nested in defines: not the blocks of a component it called, nor those
\* of a component rendered before it.
C26_BlockVisibility ==
    Called =>
        \A i \in Renders :
            /\ \A a \in Ancestors(i) : Own(out.log[a]) \subseteq Blocks(out.log[i].set)
            /\ \A j \in Renders \ (Ancestors(i) \cup {i}) :
                  out.log[j].op = "executeComponent"
                  => (Own(out.log[j]) \ OwnOrInherited(i)) \cap Blocks(out.log[i].set) = {}

\* the slot a component declares was filled with a block of the page, the
\* component being invoked by another component and not by the page
C26_Witness ==
    /\ Called
    /\ out.err = NoErr
    /\ \E i \in Renders :
          /\ out.log[i].op = "executeSlot"
          /\ out.log[i].depth = 3
          /\ \E p \in Ancestors(i) :
                /\ out.log[p].op = "executePage"
                /\ out.log[i].file \in DOMAIN source.pages[out.log[p].file].defines
          /\ \A c \in Ancestors(i) :
                out.log[c].op = "executeComponent" => out.log[i].file \notin Own(out.log[c])

ParentTemplateNotSet == [kind |-> "ParentTemplateNotSet"]

\* C28: no call of ExecutePage, ExecuteComponent or Execute fails with
\* "parent template not set": whenever a slot function runs, the context it
\* is bound to holds its template set.
C28_ParentTemplateIsSet ==
    Called => ~CausedBy(out.err, ParentTemplateNotSet)

\* a slot function ran in the content of a slot and rendered its own content
C28_Witness ==
    /\ Called
    /\ out.err = NoErr
    /\ \E i \in Calls("slot") :
          /\ i + 1 \in Renders
          /\ out.log[i + 1].op = "executeSlot"
          /\ \E a \in Ancestors(i + 1) :
                /\ out.log[a].op = "executeSlot"
                /\ out.log[a].depth + 1 = out.log[i + 1].depth

\* the heads the head file of name invokes
HeadCalls(name) ==
    IF (name \o FileExt) \notin DOMAIN source.componentHeads THEN {}
    ELSE { source.componentHeads[name \o FileExt].root[i].name :
             i \in { k \in DOMAIN source.componentHeads[name \o FileExt].root :
                       /\ source.componentHeads[name \o FileExt].root[k].node = "call"
                       /\ source.componentHeads[name \o FileExt].root[k].fn
                              = "componentHead" } }

RECURSIVE HeadsReached(_, _)
HeadsReached(names, fuel) ==
    IF fuel = 0 THEN names
    ELSE HeadsReached(names \cup UNION { HeadCalls(n) : n \in names }, fuel - 1)

\* the head of name invokes itself through the heads it invokes
OnHeadCycle(name) ==
    name \in HeadsReached(HeadCalls(name), Cardinality(DOMAIN source.componentHeads))

\* the error at the bottom of the errors the execution of a page with heads
\* wraps
RECURSIVE HeadRootCause(_)
HeadRootCause(err) ==
    IF err.kind \in {"ExecError", "FailedToExecute", "FailedToExecuteComponent",
                     "FailedToExecuteComponentHead"}
    THEN HeadRootCause(err.Err)
    ELSE err

RenderedTimes(log, name, props) ==
    Cardinality({ i \in 1..Len(log) :
                    /\ log[i].name = name
                    /\ log[i].props = props
                    /\ log[i].result = "rendered" })

\* C29: heads that invoke each other with identical arguments terminate:
\* each head of the cycle is rendered once for the arguments, every further
\* invocation with them returns empty output, and the page does not fail for
\* want of stack.
C29_HeadCyclesTerminate ==
    \A c \in HeadCallers :
        /\ \A i \in 1..Len(HeadLog(c)) :
              OnHeadCycle(HeadLog(c)[i].name)
              => /\ RenderedTimes(HeadLog(c), HeadLog(c)[i].name, HeadLog(c)[i].props) = 1
                 /\ HeadLog(c)[i].result \in {"rendered", "deduplicated"}
        /\ calls[c].stage = "returned"
           => HeadRootCause(calls[c].result.err).kind # "StackExhausted"

\* the names the component calls of a sequence of actions invoke
ComponentCalls(nodes) ==
    { nodes[i].name :
        i \in { k \in DOMAIN nodes :
                  nodes[k].node = "call" /\ nodes[k].fn = "component" } }

\* the names a file invokes as components, in its text and in its blocks
FileCalls(text) ==
    IF ~text.parses THEN {}
    ELSE ComponentCalls(text.root)
         \cup UNION { ComponentCalls(text.defines[n]) : n \in DOMAIN text.defines }

\* the component files the names resolve to
FilesOf(names) ==
    { Resolve(n, components, ComponentsDir).path :
        n \in { m \in names : /\ Resolve(m, components, ComponentsDir).err = NoErr
                             /\ Resolve(m, components, ComponentsDir).path
                                    \in DOMAIN source.components } }

\* the component-reference graph: the component files a component file
\* invokes
References(f) == FilesOf(FileCalls(source.components[f]))

RECURSIVE ReferencesReached(_, _)
ReferencesReached(files, fuel) ==
    IF fuel = 0 THEN files
    ELSE ReferencesReached(files \cup UNION { References(f) : f \in files }, fuel - 1)

AcyclicReferences ==
    \A f \in DOMAIN source.components :
        f \notin ReferencesReached(References(f), Cardinality(DOMAIN source.components))

Greatest(S) == IF S = {} THEN 0 ELSE CHOOSE x \in S : \A y \in S : y <= x

\* the number of component files on the longest chain of references that
\* starts at f
RECURSIVE ChainFrom(_, _)
ChainFrom(f, fuel) ==
    IF fuel = 0 THEN 0
    ELSE 1 + Greatest({ ChainFrom(g, fuel - 1) : g \in References(f) })

LongestChain ==
    Greatest({ ChainFrom(f, Cardinality(DOMAIN source.components)) :
                 f \in DOMAIN source.components })

\* the component renders the render at i is nested in, itself included
ComponentsOnPath(i) ==
    { a \in Ancestors(i) \cup {i} : out.log[a].op = "executeComponent" }

StackExhausted == [kind |-> "StackExhausted"]

\* C30: when no component file invokes itself through the components it
\* invokes, every call returns without exhausting the stack, and a render is
\* nested in no more component renders than the longest chain of references
\* has files (its depth is that number plus the slot renders around it).
C30_AcyclicTerminates ==
    (Called /\ AcyclicReferences) =>
        /\ ~CausedBy(out.err, StackExhausted)
        /\ \A i \in Renders : Cardinality(ComponentsOnPath(i)) <= LongestChain

====
